---------------------------- MODULE Spec2Model ----------------------------
(***************************************************************************)
(* A model of the exam digitizer's diagnostic engine (src/src/validator.py) *)
(* and of the editor's validation scheduling (src/src/gui.py).              *)
(*                                                                          *)
(* Text is a sequence of character codes (Python's ord).  A JSON value is   *)
(* a record [t, s, keys, items]; Python's None is the value of JSON null    *)
(* and of an absent tree alike, as in the code.                             *)
(***************************************************************************)
EXTENDS Integers, Sequences, FiniteSets, TLC

(***************************************************************************)
(* Characters                                                               *)
(***************************************************************************)
Ascii ==
  << " ", "!", "\"", "#", "$", "%", "&", "'", "(", ")", "*", "+", ",", "-", ".", "/",
     "0", "1", "2", "3", "4", "5", "6", "7", "8", "9", ":", ";", "<", "=", ">", "?",
     "@", "A", "B", "C", "D", "E", "F", "G", "H", "I", "J", "K", "L", "M", "N", "O",
     "P", "Q", "R", "S", "T", "U", "V", "W", "X", "Y", "Z", "[", "\\", "]", "^", "_",
     "GRAVE", "a", "b", "c", "d", "e", "f", "g", "h", "i", "j", "k", "l", "m", "n", "o",
     "p", "q", "r", "s", "t", "u", "v", "w", "x", "y", "z", "{", "|", "}", "~" >>

\* ord(ch) of a printable ASCII character
Ord(ch) == 31 + (CHOOSE i \in DOMAIN Ascii : Ascii[i] = ch)

\* the text of a tuple of one-character strings
S(chars) == [i \in DOMAIN chars |-> Ord(chars[i])]

\* the control characters the code names
Ctl(name) ==
  CASE name = "BS"  -> 8
    [] name = "TAB" -> 9
    [] name = "NL"  -> 10
    [] name = "VT"  -> 11
    [] name = "FF"  -> 12
    [] name = "CR"  -> 13

QUOTE  == Ord("\"")
BSLASH == Ord("\\")
NL     == Ctl("NL")

IsDigit(c) == c >= Ord("0") /\ c <= Ord("9")
IsHex(c)   == \/ IsDigit(c)
              \/ (c >= Ord("a") /\ c <= Ord("f"))
              \/ (c >= Ord("A") /\ c <= Ord("F"))
HexVal(c)  == IF IsDigit(c) THEN c - Ord("0")
              ELSE IF c >= Ord("a") THEN c - Ord("a") + 10
              ELSE c - Ord("A") + 10
\* str.isalpha() on the characters of the model's alphabet
IsAlpha(c) == \/ (c >= Ord("a") /\ c <= Ord("z"))
              \/ (c >= Ord("A") /\ c <= Ord("Z"))

\* raw[i] for a 0-based index; Eof past the end
Eof == 0 - 1
At(s, i) == IF i >= 0 /\ i < Len(s) THEN s[i + 1] ELSE Eof

\* s[i:i+len(lit)] == lit
Matches(s, i, lit) ==
  /\ i + Len(lit) <= Len(s)
  /\ \A k \in 1..Len(lit) : s[i + k] = lit[k]

\* s.endswith(suffix)
EndsWith(s, suffix) ==
  /\ Len(suffix) <= Len(s)
  /\ Matches(s, Len(s) - Len(suffix), suffix)

\* whether sub occurs in s
Contains(s, sub) == \E i \in 0..(Len(s) - Len(sub)) : Matches(s, i, sub)

\* Step(s, i, st) for i = lo .. hi-1 in order, threading the state st; a state
\* with st.done set ends the loop early (a break or a return inside the loop)
RECURSIVE Loop(_, _, _, _, _)
Loop(Step(_, _, _), s, lo, hi, st) ==
  IF lo >= hi \/ st.done THEN st
  ELSE IF hi = lo + 1 THEN Step(s, lo, st)
  ELSE LET mid  == (lo + hi) \div 2
           left == Loop(Step, s, lo, mid, st)
       IN  Loop(Step, s, mid, hi, left)

\* Body applied to a value computed once
With(v, Body(_)) == Body(v)

\* str(i) for a small non-negative integer
RECURSIVE IntToStr(_)
IntToStr(n) ==
  IF n < 10 THEN << Ord("0") + n >>
  ELSE Append(IntToStr(n \div 10), Ord("0") + (n % 10))

(***************************************************************************)
(* JSON values, as json.loads builds them                                   *)
(***************************************************************************)
Mk(t, s, keys, items) == [t |-> t, s |-> s, keys |-> keys, items |-> items]

None        == Mk("null", <<>>, <<>>, <<>>)
JBool(lit)  == Mk("bool", lit, <<>>, <<>>)
JNum(lit)   == Mk("num", lit, <<>>, <<>>)
JStr(chars) == Mk("str", chars, <<>>, <<>>)
JArr(items) == Mk("arr", <<>>, <<>>, items)
JObj(keys, items) == Mk("obj", <<>>, keys, items)

LitTrue  == S(<< "t", "r", "u", "e" >>)
LitFalse == S(<< "f", "a", "l", "s", "e" >>)
LitNull  == S(<< "n", "u", "l", "l" >>)
LitNaN   == S(<< "N", "a", "N" >>)
LitInf   == S(<< "I", "n", "f", "i", "n", "i", "t", "y" >>)
LitNegInf == << Ord("-") >> \o LitInf

IsDict(v) == v.t = "obj"
IsList(v) == v.t = "arr"
IsStr(v)  == v.t = "str"
IsBool(v) == v.t = "bool"

\* index of key k in a dict, 0 when absent
KeyIndex(d, k) ==
  IF \E i \in DOMAIN d.keys : d.keys[i] = k
  THEN CHOOSE i \in DOMAIN d.keys : d.keys[i] = k
  ELSE 0

\* k in d
HasKey(d, k) == KeyIndex(d, k) # 0

\* d.get(k)
Get(d, k) == IF HasKey(d, k) THEN d.items[KeyIndex(d, k)] ELSE None

\* whether a number literal denotes zero: every mantissa digit is 0
IsZeroLit(lit) ==
  /\ lit \notin {LitNaN, LitInf, LitNegInf}
  /\ \A i \in DOMAIN lit :
       (\A j \in 1..i : lit[j] \notin {Ord("e"), Ord("E")})
         => (IsDigit(lit[i]) => lit[i] = Ord("0"))

\* bool(v)
Truthy(v) ==
  CASE v.t = "null" -> FALSE
    [] v.t = "bool" -> v.s = LitTrue
    [] v.t = "num"  -> ~IsZeroLit(v.s)
    [] v.t = "str"  -> v.s # <<>>
    [] v.t = "arr"  -> v.items # <<>>
    [] v.t = "obj"  -> v.keys # <<>>

(***************************************************************************)
(* json.loads: the standard decoder the code calls                          *)
(***************************************************************************)
\* nesting depth at which the decoder's recursion guard raises RecursionError
RecursionLimit == 7

Ok(val, end) ==
  [ok |-> TRUE, val |-> val, end |-> end, kind |-> "", msg |-> "", pos |-> 0]
Fail(kind, msg, pos) ==
  [ok |-> FALSE, val |-> None, end |-> 0, kind |-> kind, msg |-> msg, pos |-> pos]

IsWs(c) == c \in {Ord(" "), Ctl("TAB"), Ctl("NL"), Ctl("CR")}

\* the end of the run of whitespace (of digits) that starts at i
SkipWs(s, i) ==
  CHOOSE j \in i..(IF i > Len(s) THEN i ELSE Len(s)) :
    ~IsWs(At(s, j)) /\ \A k \in i..(j - 1) : IsWs(At(s, k))

SkipDigits(s, i) ==
  CHOOSE j \in i..(IF i > Len(s) THEN i ELSE Len(s)) :
    ~IsDigit(At(s, j)) /\ \A k \in i..(j - 1) : IsDigit(At(s, k))

\* NUMBER_RE.match(s, i): the end of the match, or Eof for no match
IntPart(s, i) ==
  IF At(s, i) = Ord("0") THEN i + 1
  ELSE IF IsDigit(At(s, i)) THEN SkipDigits(s, i)
  ELSE Eof

FracPart(s, i) ==
  IF At(s, i) = Ord(".") /\ IsDigit(At(s, i + 1)) THEN SkipDigits(s, i + 2) ELSE i

ExpDigits(s, i, e) == IF IsDigit(At(s, e)) THEN SkipDigits(s, e) ELSE i

ExpPart(s, i) ==
  IF At(s, i) \in {Ord("e"), Ord("E")}
  THEN ExpDigits(s, i, IF At(s, i + 1) \in {Ord("+"), Ord("-")} THEN i + 2 ELSE i + 1)
  ELSE i

MatchNumber(s, i) ==
  With(IntPart(s, IF At(s, i) = Ord("-") THEN i + 1 ELSE i),
       LAMBDA i2 : IF i2 = Eof THEN Eof
                   ELSE With(FracPart(s, i2), LAMBDA i3 : ExpPart(s, i3)))

\* the character a two-character escape denotes, Eof for an invalid escape
Backslash(esc) ==
  CASE esc = QUOTE    -> QUOTE
    [] esc = BSLASH   -> BSLASH
    [] esc = Ord("/") -> Ord("/")
    [] esc = Ord("b") -> Ctl("BS")
    [] esc = Ord("f") -> Ctl("FF")
    [] esc = Ord("n") -> Ctl("NL")
    [] esc = Ord("r") -> Ctl("CR")
    [] esc = Ord("t") -> Ctl("TAB")
    [] OTHER          -> Eof

\* one character of scanstring's loop; st.next is where the next chunk starts
StringStep(s, i, st) ==
  LET c   == s[i + 1]
      esc == At(s, i + 1)
  IN
  IF i < st.next THEN st
  ELSE IF c = QUOTE THEN [st EXCEPT !.done = TRUE, !.res = Ok(JStr(st.acc), i + 1)]
  ELSE IF c = BSLASH THEN
    IF esc = Eof
    THEN [st EXCEPT !.done = TRUE,
                    !.res = Fail("decode", "Unterminated string starting at", st.begin)]
    ELSE IF esc = Ord("u") THEN
      IF \A k \in 2..5 : IsHex(At(s, i + k))
      THEN [st EXCEPT !.next = i + 6,
                      !.acc = Append(st.acc,
                                4096 * HexVal(At(s, i + 2)) + 256 * HexVal(At(s, i + 3))
                                + 16 * HexVal(At(s, i + 4)) + HexVal(At(s, i + 5)))]
      ELSE [st EXCEPT !.done = TRUE,
                      !.res = Fail("decode", "Invalid \\uXXXX escape", i + 1)]
    ELSE IF Backslash(esc) = Eof
    THEN [st EXCEPT !.done = TRUE, !.res = Fail("decode", "Invalid \\escape", i)]
    ELSE [st EXCEPT !.next = i + 2, !.acc = Append(st.acc, Backslash(esc))]
  ELSE IF c < 32
  THEN [st EXCEPT !.done = TRUE,
                  !.res = Fail("decode", "Invalid control character at", i)]
  ELSE [st EXCEPT !.acc = Append(st.acc, c)]

\* scanstring(s, i): i is the position after the opening quote, begin the quote
ScanString(s, i, begin) ==
  LET unterminated == Fail("decode", "Unterminated string starting at", begin)
      st == Loop(StringStep, s, i, Len(s),
                 [done |-> FALSE, next |-> i, acc |-> <<>>, begin |-> begin,
                  res |-> unterminated])
  IN  st.res

\* pairs appended to a dict: a repeated key keeps its place and takes the new value
DictPut(d, k, v) ==
  IF HasKey(d, k)
  THEN JObj(d.keys, [d.items EXCEPT ![KeyIndex(d, k)] = v])
  ELSE JObj(Append(d.keys, k), Append(d.items, v))

RECURSIVE ScanOnce(_, _, _)
RECURSIVE ArrLoop(_, _, _, _)
RECURSIVE ObjLoop(_, _, _, _)

\* JSONArray: i is the position after "["
ParseArray(s, i, depth) ==
  With(SkipWs(s, i), LAMBDA j :
    IF At(s, j) = Ord("]") THEN Ok(JArr(<<>>), j + 1)
    ELSE ArrLoop(s, j, <<>>, depth))

\* after a value of the array: j is the position of the next token
ArrAfterValue(s, j, acc, depth) ==
  IF At(s, j) = Ord("]") THEN Ok(JArr(acc), j + 1)
  ELSE IF At(s, j) = Ord(",") THEN ArrLoop(s, SkipWs(s, j + 1), acc, depth)
  ELSE Fail("decode", "Expecting ',' delimiter", j)

ArrLoop(s, i, acc, depth) ==
  With(ScanOnce(s, i, depth), LAMBDA r :
    IF ~r.ok THEN r
    ELSE ArrAfterValue(s, SkipWs(s, r.end), Append(acc, r.val), depth))

\* i is the position of a key's opening quote, if there is one
ObjKey(s, i, d, depth) ==
  IF At(s, i) # QUOTE
  THEN Fail("decode", "Expecting property name enclosed in double quotes", i)
  ELSE ObjLoop(s, i, d, depth)

\* JSONObject: i is the position after "{"
ParseObject(s, i, depth) ==
  With(SkipWs(s, i), LAMBDA j :
    IF At(s, j) = Ord("}") THEN Ok(JObj(<<>>, <<>>), j + 1)
    ELSE ObjKey(s, j, JObj(<<>>, <<>>), depth))

\* after a value of the object: m is the position of the next token
ObjAfterValue(s, m, d, depth) ==
  IF At(s, m) = Ord("}") THEN Ok(d, m + 1)
  ELSE IF At(s, m) = Ord(",") THEN ObjKey(s, SkipWs(s, m + 1), d, depth)
  ELSE Fail("decode", "Expecting ',' delimiter", m)

\* the value of key k, expected after a colon at j
ObjValue(s, j, d, k, depth) ==
  IF At(s, j) # Ord(":") THEN Fail("decode", "Expecting ':' delimiter", j)
  ELSE With(ScanOnce(s, SkipWs(s, j + 1), depth), LAMBDA v :
         IF ~v.ok THEN v
         ELSE ObjAfterValue(s, SkipWs(s, v.end), DictPut(d, k, v.val), depth))

ObjLoop(s, i, d, depth) ==
  With(ScanString(s, i + 1, i), LAMBDA k :
    IF ~k.ok THEN k
    ELSE ObjValue(s, SkipWs(s, k.end), d, k.val.s, depth))

\* the number literal between i and its end e
NumberAt(s, i, e) == Ok(JNum([k \in 1..(e - i) |-> s[i + k]]), e)

\* the constants the scanner accepts after numbers have been tried
ConstantAt(s, i) ==
  IF Matches(s, i, LitNaN) THEN Ok(JNum(LitNaN), i + 3)
  ELSE IF Matches(s, i, LitInf) THEN Ok(JNum(LitInf), i + 8)
  ELSE IF Matches(s, i, LitNegInf) THEN Ok(JNum(LitNegInf), i + 9)
  ELSE Fail("decode", "Expecting value", i)

\* scan_once(s, i): StopIteration becomes "Expecting value" at the position it carries
ScanOnce(s, i, depth) ==
  With(At(s, i), LAMBDA c :
    IF c = QUOTE THEN ScanString(s, i + 1, i)
    ELSE IF c \in {Ord("{"), Ord("[")} /\ depth >= RecursionLimit
    THEN Fail("other", "maximum recursion depth exceeded", i)
    ELSE IF c = Ord("{") THEN ParseObject(s, i + 1, depth + 1)
    ELSE IF c = Ord("[") THEN ParseArray(s, i + 1, depth + 1)
    ELSE IF Matches(s, i, LitNull) THEN Ok(None, i + 4)
    ELSE IF Matches(s, i, LitTrue) THEN Ok(JBool(LitTrue), i + 4)
    ELSE IF Matches(s, i, LitFalse) THEN Ok(JBool(LitFalse), i + 5)
    ELSE With(MatchNumber(s, i), LAMBDA e :
           IF e # Eof THEN NumberAt(s, i, e) ELSE ConstantAt(s, i)))

\* what follows the value: nothing but whitespace
EndOfDocument(s, r, e) == IF e # Len(s) THEN Fail("decode", "Extra data", e) ELSE r

\* json.loads(s)
JsonLoads(s) ==
  With(ScanOnce(s, SkipWs(s, 0), 0), LAMBDA r :
    IF ~r.ok THEN r ELSE EndOfDocument(s, r, SkipWs(s, r.end)))

\* JSONDecodeError.lineno: doc.count("\n", 0, pos) + 1
LineNo(s, pos) == Cardinality({i \in 1..pos : s[i] = NL}) + 1

\* JSONDecodeError.colno: pos - doc.rfind("\n", 0, pos), rfind being -1 for none
ColNo(s, pos) ==
  LET nls == {i \in 1..pos : s[i] = NL} IN
  IF nls = {} THEN pos + 1
  ELSE pos - ((CHOOSE i \in nls : \A j \in nls : j <= i) - 1)

(***************************************************************************)
(* Diagnostics (ValidationIssue).  message is the kind of the message text, *)
(* args the values the text interpolates; line, col and context are <<>>    *)
(* for None and a one-element tuple otherwise.                              *)
(***************************************************************************)
Issue(severity, message, args, path, line, col, context) ==
  [severity |-> severity, message |-> message, args |-> args, path |-> path,
   line |-> line, col |-> col, context |-> context]

\* an issue located by a structural path only
PathIssue(severity, message, args, path) ==
  Issue(severity, message, args, path, <<>>, <<>>, <<>>)

(***************************************************************************)
(* _find_suspicious_json_escapes                                            *)
(***************************************************************************)
escape_letters == {Ord("b"), Ord("f"), Ord("n"), Ord("r"), Ord("t")}

EscapeWarning(esc, nxt2, line, col) ==
  Issue("warning", "suspicious_escape", << <<esc>>, <<nxt2>> >>, <<>>,
        <<line>>, <<col>>, <<>>)

\* ScanStep without the escaped flag: every backslash in a string counts as unescaped
ScanStepIgnoringEscaped(raw, i, st) ==
  IF raw[i + 1] = NL
  THEN [st EXCEPT !.line = st.line + 1, !.col = 0]
  ELSE IF ~st.in_string
  THEN [st EXCEPT !.col = st.col + 1, !.in_string = (raw[i + 1] = QUOTE)]
  ELSE IF raw[i + 1] = BSLASH
  THEN [st EXCEPT !.col = st.col + 1,
                  !.issues = IF raw[i + 2] \in escape_letters /\ IsAlpha(At(raw, i + 2))
                             THEN Append(st.issues,
                                         EscapeWarning(raw[i + 2], At(raw, i + 2),
                                                       st.line, st.col + 1))
                             ELSE st.issues]
  ELSE IF raw[i + 1] = QUOTE
  THEN [st EXCEPT !.col = st.col + 1, !.in_string = FALSE]
  ELSE [st EXCEPT !.col = st.col + 1]

\* ScanStep with a column counter that runs on across newlines
ScanStepKeepingColumn(raw, i, st) ==
  IF raw[i + 1] = NL
  THEN [st EXCEPT !.line = st.line + 1, !.col = st.col + 1, !.escaped = FALSE]
  ELSE IF ~st.in_string
  THEN [st EXCEPT !.col = st.col + 1, !.in_string = (raw[i + 1] = QUOTE)]
  ELSE IF st.escaped
  THEN [st EXCEPT !.col = st.col + 1, !.escaped = FALSE]
  ELSE IF raw[i + 1] = BSLASH
  THEN [st EXCEPT !.col = st.col + 1, !.escaped = TRUE,
                  !.issues = IF raw[i + 2] \in escape_letters /\ IsAlpha(At(raw, i + 2))
                             THEN Append(st.issues,
                                         EscapeWarning(raw[i + 2], At(raw, i + 2),
                                                       st.line, st.col + 1))
                             ELSE st.issues]
  ELSE IF raw[i + 1] = QUOTE
  THEN [st EXCEPT !.col = st.col + 1, !.in_string = FALSE]
  ELSE [st EXCEPT !.col = st.col + 1]

\* one iteration of the while loop, at index i
ScanStep(raw, i, st) ==
  LET ch   == raw[i + 1]
      esc  == raw[i + 2]
      nxt2 == At(raw, i + 2)
      col  == st.col + 1
  IN
  IF ch = NL
  THEN [st EXCEPT !.line = st.line + 1, !.col = 0, !.escaped = FALSE]
  ELSE IF ~st.in_string
  THEN [st EXCEPT !.col = col, !.in_string = (ch = QUOTE)]
  ELSE IF st.escaped
  THEN [st EXCEPT !.col = col, !.escaped = FALSE]
  ELSE IF ch = BSLASH
  THEN [st EXCEPT !.col = col, !.escaped = TRUE,
                  !.issues = IF esc \in escape_letters /\ IsAlpha(nxt2)
                             THEN Append(st.issues, EscapeWarning(esc, nxt2, st.line, col))
                             ELSE st.issues]
  ELSE IF ch = QUOTE
  THEN [st EXCEPT !.col = col, !.in_string = FALSE]
  ELSE [st EXCEPT !.col = col]

\* the scanner's variables before the loop
ScanInit ==
  [done |-> FALSE, in_string |-> FALSE, escaped |-> FALSE, line |-> 1, col |-> 0,
   issues |-> <<>>]

\* while i < len(raw) - 1
FindSuspiciousJsonEscapes(raw) == Loop(ScanStep, raw, 0, Len(raw) - 1, ScanInit).issues

(***************************************************************************)
(* _json_decode_issue                                                       *)
(***************************************************************************)
\* the line boundaries of str.splitlines() among the characters of the model
IsLineBreak(c) == c \in {Ctl("NL"), Ctl("VT"), Ctl("FF"), Ctl("CR"), 28, 29, 30, 133, 8232, 8233}

\* raw.splitlines(), one character at a time: cur is the line being collected,
\* skip tells that this character is the "\n" of a "\r\n" already taken
SplitStep(raw, i, st) ==
  IF st.skip THEN [st EXCEPT !.skip = FALSE]
  ELSE IF IsLineBreak(raw[i + 1])
  THEN [st EXCEPT !.acc = Append(st.acc, st.cur), !.cur = <<>>,
                  !.skip = (raw[i + 1] = Ctl("CR") /\ At(raw, i + 1) = Ctl("NL"))]
  ELSE [st EXCEPT !.cur = Append(st.cur, raw[i + 1])]

SplitLines(raw) ==
  LET st == Loop(SplitStep, raw, 0, Len(raw),
                 [done |-> FALSE, skip |-> FALSE, cur |-> <<>>, acc |-> <<>>])
  IN  IF st.cur = <<>> THEN st.acc ELSE Append(st.acc, st.cur)

\* JsonDecodeIssue without the position the decoder reports
JsonDecodeIssueWithoutPosition(raw, e) ==
  Issue("error", "json_format", <<>>, <<>>, <<>>, <<>>, <<>>)

JsonDecodeIssue(raw, e) ==
  LET line      == LineNo(raw, e.pos)
      col       == ColNo(raw, e.pos)
      raw_lines == SplitLines(raw)
      caret_pos == IF col - 1 > 0 THEN col - 1 ELSE 0
      context   == IF 1 <= line /\ line <= Len(raw_lines)
                   THEN << raw_lines[line] \o <<NL>>
                           \o [k \in 1..caret_pos |-> Ord(" ")] \o <<Ord("^")>> >>
                   ELSE <<>>
  IN  Issue("error", "json_format", <<>>, <<>>, <<line>>, <<col>>, context)

\* the issue built when the decoder raises something else
JsonExceptionIssue == PathIssue("error", "json_exception", <<>>, <<>>)

(***************************************************************************)
(* _validate_schema                                                         *)
(***************************************************************************)
K_meta == S(<< "m", "e", "t", "a" >>)
K_title == S(<< "t", "i", "t", "l", "e" >>)
K_subject == S(<< "s", "u", "b", "j", "e", "c", "t" >>)
K_sections == S(<< "s", "e", "c", "t", "i", "o", "n", "s" >>)
K_type == S(<< "t", "y", "p", "e" >>)
K_questions == S(<< "q", "u", "e", "s", "t", "i", "o", "n", "s" >>)
K_content == S(<< "c", "o", "n", "t", "e", "n", "t" >>)
K_options == S(<< "o", "p", "t", "i", "o", "n", "s" >>)
K_figure == S(<< "f", "i", "g", "u", "r", "e" >>)
K_code == S(<< "c", "o", "d", "e" >>)
K_image == S(<< "i", "m", "a", "g", "e" >>)
K_width == S(<< "w", "i", "d", "t", "h" >>)
K_height == S(<< "h", "e", "i", "g", "h", "t" >>)
K_tikz == S(<< "t", "i", "k", "z" >>)
K_id == S(<< "i", "d" >>)
T_single_choice   == S(<< "s", "i", "n", "g", "l", "e", "_", "c", "h", "o", "i", "c", "e" >>)
T_multiple_choice == S(<< "m", "u", "l", "t", "i", "p", "l", "e", "_", "c", "h", "o", "i", "c", "e" >>)
T_fill            == S(<< "f", "i", "l", "l" >>)
T_problem         == S(<< "p", "r", "o", "b", "l", "e", "m" >>)

allowed_types == {T_single_choice, T_multiple_choice, T_fill, T_problem}
\* choice_types without multiple_choice
ChoiceTypesSingleOnly == {T_single_choice}

choice_types  == {T_single_choice, T_multiple_choice}

\* whether hash(v) succeeds: lists and dicts are unhashable
Hashable(v) == ~IsList(v) /\ ~IsDict(v)

\* v in types, for a hashable v and a set of strings
InTypes(v, types) == IsStr(v) /\ v.s \in types

\* f"sections[{si}]" and f"{spath}.questions[{qi}]"
SPath(si) == K_sections \o <<Ord("[")>> \o IntToStr(si) \o <<Ord("]")>>
QPath(si, qi) ==
  SPath(si) \o <<Ord(".")>> \o K_questions \o <<Ord("[")>> \o IntToStr(qi) \o <<Ord("]")>>
Dot(path, key) == path \o <<Ord(".")>> \o key

\* the body of the loop over (width, height)
ImageKeyIssues(qpath, img) ==
  LET one(key) == IF HasKey(img, key) /\ ~IsStr(Get(img, key))
                  THEN << PathIssue("warning", "image_key", <<key>>,
                                    Dot(Dot(qpath, K_image), key)) >>
                  ELSE <<>>
  IN  one(K_width) \o one(K_height)

\* the body of the loop over questions, after the isinstance check
QuestionFieldIssues(qpath, q, stype) ==
  LET opts == Get(q, K_options)
      fig  == Get(q, K_figure)
      img  == Get(q, K_image)
  IN  (IF ~HasKey(q, K_content)
       THEN << PathIssue("warning", "content", <<>>, Dot(qpath, K_content)) >> ELSE <<>>)
   \o (IF InTypes(stype, choice_types) /\ (~IsList(opts) \/ ~Truthy(opts))
       THEN << PathIssue("error", "options", <<>>, Dot(qpath, K_options)) >> ELSE <<>>)
   \o (IF fig # None /\ ~IsDict(fig)
       THEN << PathIssue("warning", "figure", <<>>, Dot(qpath, K_figure)) >> ELSE <<>>)
   \o (IF IsDict(fig) /\ Get(fig, K_type) = JStr(K_tikz) /\ ~IsStr(Get(fig, K_code))
       THEN << PathIssue("warning", "figure_code", <<>>, Dot(Dot(qpath, K_figure), K_code)) >>
       ELSE <<>>)
   \o (IF img # None /\ ~(IsDict(img) \/ IsBool(img) \/ IsStr(img))
       THEN << PathIssue("warning", "image", <<>>, Dot(qpath, K_image)) >> ELSE <<>>)
   \o (IF IsDict(img) THEN ImageKeyIssues(qpath, img) ELSE <<>>)

\* one iteration of the loop over questions
QuestionIssues(si, qi, q, stype) ==
  IF ~IsDict(q)
  THEN << PathIssue("error", "question", <<>>, QPath(si, qi)) >>
  ELSE QuestionFieldIssues(QPath(si, qi), q, stype)

\* the loop over questions: qi is the 0-based index of the next question
RECURSIVE QuestionsLoop(_, _, _, _)
QuestionsLoop(si, qs, qi, stype) ==
  IF qi >= Len(qs) THEN <<>>
  ELSE QuestionIssues(si, qi, qs[qi + 1], stype) \o QuestionsLoop(si, qs, qi + 1, stype)

\* one iteration of the loop over sections: raised when the set lookup of an
\* unhashable type raises TypeError
SectionIssues(si, section) ==
  IF ~IsDict(section)
  THEN [raised |-> FALSE,
        issues |-> << PathIssue("error", "section", <<>>, SPath(si)) >>]
  ELSE LET stype == Get(section, K_type)
           qs    == Get(section, K_questions)
           tw    == IF ~InTypes(stype, allowed_types)
                    THEN << PathIssue("warning", "type", <<>>, Dot(SPath(si), K_type)) >>
                    ELSE <<>>
       IN  IF ~Hashable(stype) THEN [raised |-> TRUE, issues |-> <<>>]
           ELSE IF ~IsList(qs)
           THEN [raised |-> FALSE,
                 issues |-> tw \o << PathIssue("error", "questions", <<>>,
                                               Dot(SPath(si), K_questions)) >>]
           ELSE [raised |-> FALSE, issues |-> tw \o QuestionsLoop(si, qs.items, 0, stype)]

\* the loop over sections: it ends where an iteration raises
RECURSIVE SectionsLoop(_, _, _)
SectionsLoop(sections, si, issues) ==
  IF si >= Len(sections) THEN [raised |-> FALSE, issues |-> issues]
  ELSE LET r == SectionIssues(si, sections[si + 1]) IN
       IF r.raised THEN [raised |-> TRUE, issues |-> <<>>]
       ELSE SectionsLoop(sections, si + 1, issues \o r.issues)

\* the checks of meta
MetaIssues(data) ==
  LET meta == Get(data, K_meta) IN
  IF meta = None \/ ~IsDict(meta)
  THEN << PathIssue("warning", "meta", <<>>, K_meta) >>
  ELSE (IF ~Truthy(Get(meta, K_title))
        THEN << PathIssue("warning", "meta_title", <<>>, Dot(K_meta, K_title)) >> ELSE <<>>)
    \o (IF ~Truthy(Get(meta, K_subject))
        THEN << PathIssue("warning", "meta_subject", <<>>, Dot(K_meta, K_subject)) >>
        ELSE <<>>)

\* _validate_schema(data): [raised, issues]
\* ValidateSchema that accepts every tree
ValidateSchemaAcceptingAll(data) == [raised |-> FALSE, issues |-> <<>>]

ValidateSchema(data) ==
  IF ~IsDict(data)
  THEN [raised |-> FALSE, issues |-> << PathIssue("error", "top_level", <<>>, <<>>) >>]
  ELSE LET sections == Get(data, K_sections) IN
       IF ~IsList(sections)
       THEN [raised |-> FALSE,
             issues |-> MetaIssues(data)
                        \o << PathIssue("error", "sections", <<>>, K_sections) >>]
       ELSE SectionsLoop(sections.items, 0, MetaIssues(data))

(***************************************************************************)
(* _iter_strings                                                            *)
(***************************************************************************)
RECURSIVE IterStrings(_, _)
RECURSIVE IterItems(_, _, _)

\* the strings below obj.items[k..], each with its path
IterItems(obj, path, k) ==
  IF k > Len(obj.items) THEN <<>>
  ELSE LET sub == IF IsDict(obj)
                  THEN (IF path # <<>> THEN Dot(path, obj.keys[k]) ELSE obj.keys[k])
                  ELSE path \o <<Ord("[")>> \o IntToStr(k - 1) \o <<Ord("]")>>
       IN  IterStrings(obj.items[k], sub) \o IterItems(obj, path, k + 1)

\* _iter_strings(obj, path): the (path, string) pairs in the order yielded
IterStrings(obj, path) ==
  IF IsDict(obj) \/ IsList(obj) THEN IterItems(obj, path, 1)
  ELSE IF IsStr(obj) THEN << <<path, obj.s>> >>
  ELSE <<>>

(***************************************************************************)
(* _strip_math_segments                                                     *)
(***************************************************************************)
\* (?<!\\) at 0-based position i
NotAfterBackslash(s, i) == At(s, i - 1) # BSLASH

\* whether the pattern  open .*? close  matches at i; lb: both delimiters carry (?<!\\)
ClosePositions(s, i, open, close, lb) ==
  {j \in (i + Len(open))..(Len(s) - Len(close)) :
     Matches(s, j, close) /\ (lb => NotAfterBackslash(s, j))}

SegmentAt(s, i, open, close, lb) ==
  /\ Matches(s, i, open)
  /\ lb => NotAfterBackslash(s, i)
  /\ ClosePositions(s, i, open, close, lb) # {}

\* the non-greedy match takes the first closing delimiter
SegmentEnd(s, i, open, close, lb) ==
  LET js == ClosePositions(s, i, open, close, lb)
  IN  (CHOOSE j \in js : \A k \in js : j <= k) + Len(close)

\* re.sub(pattern, "", s, flags=DOTALL), one position at a time: st.next is the
\* end of the last segment removed
StripStep(s, i, st) ==
  IF i < st.next THEN st
  ELSE IF SegmentAt(s, i, st.open, st.close, st.lb)
  THEN [st EXCEPT !.next = SegmentEnd(s, i, st.open, st.close, st.lb)]
  ELSE [st EXCEPT !.acc = Append(st.acc, s[i + 1])]

Strip(s, open, close, lb) ==
  Loop(StripStep, s, 0, Len(s),
       [done |-> FALSE, next |-> 0, acc |-> <<>>, open |-> open, close |-> close,
        lb |-> lb]).acc

D_dollar2 == S(<< "$", "$" >>)
D_dollar  == S(<< "$" >>)
D_lparen  == S(<< "\\", "(" >>)
D_rparen  == S(<< "\\", ")" >>)
D_lbrack  == S(<< "\\", "[" >>)
D_rbrack  == S(<< "\\", "]" >>)

StripMathSegments(s) ==
  Strip(Strip(Strip(Strip(s, D_dollar2, D_dollar2, TRUE),
                    D_dollar, D_dollar, TRUE),
              D_lparen, D_rparen, FALSE),
        D_lbrack, D_rbrack, FALSE)

(***************************************************************************)
(* _check_env_balance                                                       *)
(***************************************************************************)
P_begin == S(<< "\\", "b", "e", "g", "i", "n", "{" >>)
P_end   == S(<< "\\", "e", "n", "d", "{" >>)

\* the first "}" at or after 0-based position k, Eof when there is none
CloseBrace(s, k) ==
  LET js == {j \in k..(Len(s) - 1) : s[j + 1] = Ord("}")}
  IN  IF js = {} THEN Eof ELSE CHOOSE j \in js : \A m \in js : j <= m

\* re.finditer(prefix ([^}]+) \}, s), one position at a time: the matches as
\* [start, kind, name]; st.next is the end of the last match
EnvStep(s, i, st) ==
  LET n == i + Len(st.prefix)
      j == CloseBrace(s, n)
  IN  IF i < st.next THEN st
      ELSE IF Matches(s, i, st.prefix) /\ j # Eof /\ j > n
      THEN [st EXCEPT !.next = j + 1,
                      !.acc = Append(st.acc, [start |-> i, kind |-> st.kind,
                                              name |-> [k \in 1..(j - n) |-> s[n + k]]])]
      ELSE st

EnvMatches(s, prefix, kind) ==
  Loop(EnvStep, s, 0, Len(s),
       [done |-> FALSE, next |-> 0, acc |-> <<>>, prefix |-> prefix, kind |-> kind]).acc

\* tokens.sort(key=start): a stable insertion sort
RECURSIVE InsertByStart(_, _)
InsertByStart(sorted, tok) ==
  IF sorted = <<>> THEN <<tok>>
  ELSE IF sorted[Len(sorted)].start <= tok.start THEN Append(sorted, tok)
  ELSE Append(InsertByStart(SubSeq(sorted, 1, Len(sorted) - 1), tok), sorted[Len(sorted)])

RECURSIVE SortByStart(_, _, _)
SortByStart(tokens, k, acc) ==
  IF k > Len(tokens) THEN acc
  ELSE SortByStart(tokens, k + 1, InsertByStart(acc, tokens[k]))

EnvTokens(s) ==
  SortByStart(EnvMatches(s, P_begin, "begin") \o EnvMatches(s, P_end, "end"), 1, <<>>)

\* LeftOpenIssues reporting nothing
LeftOpenIssuesNone(stack, path) == <<>>

\* for name in reversed(stack)
RECURSIVE LeftOpenIssues(_, _)
LeftOpenIssues(stack, path) ==
  IF stack = <<>> THEN <<>>
  ELSE << PathIssue("warning", "begin_without_end", << stack[Len(stack)] >>, path) >>
       \o LeftOpenIssues(SubSeq(stack, 1, Len(stack) - 1), path)

\* the replay of the tokens against the stack, then the leftovers
RECURSIVE EnvReplay(_, _, _, _, _)
EnvReplay(tokens, k, stack, issues, path) ==
  IF k > Len(tokens) THEN issues \o LeftOpenIssues(stack, path)
  ELSE LET tok == tokens[k] IN
  IF tok.kind = "begin"
  THEN EnvReplay(tokens, k + 1, Append(stack, tok.name), issues, path)
  ELSE IF stack = <<>>
  THEN EnvReplay(tokens, k + 1, stack,
                 Append(issues, PathIssue("warning", "end_without_begin", <<tok.name>>, path)),
                 path)
  ELSE LET top  == stack[Len(stack)]
           rest == SubSeq(stack, 1, Len(stack) - 1)
       IN  EnvReplay(tokens, k + 1, rest,
                     IF top # tok.name
                     THEN Append(issues, PathIssue("warning", "env_mismatch",
                                                   <<top, tok.name>>, path))
                     ELSE issues,
                     path)

CheckEnvBalance(s, path) == EnvReplay(EnvTokens(s), 1, <<>>, <<>>, path)

(***************************************************************************)
(* _validate_latex_string                                                   *)
(***************************************************************************)
Positions(s) == 0..(Len(s) - 1)

\* the characters the control-character check exempts
\* ExemptControls with nothing exempt
ExemptControlsNone == {}

ExemptControls == {Ctl("NL"), Ctl("CR"), Ctl("TAB")}
IsBadControl(c) == c < 32 /\ c \notin ExemptControls

\* bad[:5]
FirstFive(seq) == SubSeq(seq, 1, IF Len(seq) < 5 THEN Len(seq) ELSE 5)

\* DollarCount counting the dollars that follow a backslash as well
DollarCountEscapedToo(s) == Cardinality({i \in Positions(s) : s[i + 1] = Ord("$")})

\* len(re.findall(r"(?<!\\)\$", s))
DollarCount(s) ==
  Cardinality({i \in Positions(s) : s[i + 1] = Ord("$") /\ NotAfterBackslash(s, i)})

\* re.search(r"(?<!\\)" + ch, s)
HasUnescaped(s, lit) == \E i \in Positions(s) : Matches(s, i, lit) /\ NotAfterBackslash(s, i)

\* s.count(c)
CountChar(s, c) == Cardinality({i \in Positions(s) : s[i + 1] = c})

\* \w
IsWordChar(c) == IsAlpha(c) \/ IsDigit(c) \/ c = Ord("_")

\* len(re.findall(cmd + r"\b", s)) for a command ending in a letter
CountCommand(s, cmd) ==
  Cardinality({i \in Positions(s) : Matches(s, i, cmd) /\ ~IsWordChar(At(s, i + Len(cmd)))})

W_left    == S(<< "\\", "l", "e", "f", "t" >>)
W_right   == S(<< "\\", "r", "i", "g", "h", "t" >>)
W_bsn     == S(<< "\\", "n" >>)
W_blank   == S(<< "_", "_", "B", "L", "A", "N", "K", "_", "_" >>)
W_dottype == S(<< ".", "t", "y", "p", "e" >>)
W_dotid   == S(<< ".", "i", "d" >>)

\* s.replace(lit, ""), one position at a time
RemoveStep(s, i, st) ==
  IF i < st.next THEN st
  ELSE IF Matches(s, i, st.lit) THEN [st EXCEPT !.next = i + Len(st.lit)]
  ELSE [st EXCEPT !.acc = Append(st.acc, s[i + 1])]

RemoveAll(s, lit) ==
  Loop(RemoveStep, s, 0, Len(s),
       [done |-> FALSE, next |-> 0, acc |-> <<>>, lit |-> lit]).acc

\* the four characters of check 7, in the order of the loop
SpecialChars == << Ord("%"), Ord("&"), Ord("#"), Ord("_") >>

SpecialCharIssues(non_math, path) ==
  LET one(k) == IF HasUnescaped(non_math, << SpecialChars[k] >>)
                THEN << PathIssue("warning", "unescaped_char", << <<SpecialChars[k]>> >>, path) >>
                ELSE <<>>
  IN  one(1) \o one(2) \o one(3) \o one(4)

\* whether the path names a field that holds no markup
SkippedPath(path) == EndsWith(path, W_dottype) \/ EndsWith(path, W_dotid)

ControlCharIssues(s, path) ==
  LET bad == SelectSeq(s, IsBadControl) IN
  IF bad # <<>>
  THEN << PathIssue("error", "control_chars", << FirstFive(bad) >>, path) >>
  ELSE <<>>

DollarParityIssues(s, path) ==
  IF DollarCount(s) % 2 = 1
  THEN << PathIssue("error", "unpaired_dollar", <<>>, path) >>
  ELSE <<>>

ValidateLatexString(s, path) ==
  IF SkippedPath(path) THEN <<>>
  ELSE ControlCharIssues(s, path)
    \o (IF Contains(s, W_bsn)
        THEN << PathIssue("error", "backslash_n", <<>>, path) >> ELSE <<>>)
    \o DollarParityIssues(s, path)
    \o (IF HasUnescaped(s, D_dollar2)
        THEN << PathIssue("warning", "double_dollar", <<>>, path) >> ELSE <<>>)
    \o (IF CountChar(s, Ord("{")) # CountChar(s, Ord("}"))
        THEN << PathIssue("warning", "braces", <<>>, path) >> ELSE <<>>)
    \o (IF CountCommand(s, W_left) # CountCommand(s, W_right)
        THEN << PathIssue("warning", "left_right", <<>>, path) >> ELSE <<>>)
    \o CheckEnvBalance(s, path)
    \o SpecialCharIssues(RemoveAll(StripMathSegments(s), W_blank), path)

\* _validate_all_strings(data)
RECURSIVE ValidateStringsFrom(_, _)
ValidateStringsFrom(pairs, k) ==
  IF k > Len(pairs) THEN <<>>
  ELSE ValidateLatexString(pairs[k][2], pairs[k][1]) \o ValidateStringsFrom(pairs, k + 1)

ValidateAllStrings(data) == ValidateStringsFrom(IterStrings(data, <<>>), 1)

(***************************************************************************)
(* validate_json_and_latex as a function of its text                        *)
(***************************************************************************)
\* outcome: "returned" or "raised"
Result(outcome, tree, issues) == [outcome |-> outcome, tree |-> tree, issues |-> issues]

\* lines 36-38, the schema validator having returned or raised
AfterSchema(scan, val, schema) ==
  IF schema.raised THEN Result("raised", None, <<>>)
  ELSE Result("returned", val, scan \o schema.issues \o ValidateAllStrings(val))

\* lines 27-38, json.loads having returned or raised
AfterLoads(text, scan, parsed) ==
  IF ~parsed.ok /\ parsed.kind = "decode"
  THEN Result("returned", None, Append(scan, JsonDecodeIssue(text, parsed)))
  ELSE IF ~parsed.ok
  THEN Result("returned", None, Append(scan, JsonExceptionIssue))
  ELSE AfterSchema(scan, parsed.val, ValidateSchema(parsed.val))

\* the whole call: what it returns, or that it raised
ValidateJsonAndLatex(text) ==
  IF text = <<>> THEN Result("returned", None, <<>>)
  ELSE AfterLoads(text, FindSuspiciousJsonEscapes(text), JsonLoads(text))

(***************************************************************************)
(* The state of one call of validate_json_and_latex                         *)
(***************************************************************************)
VARIABLES
  json_str,   \* the argument
  pc,         \* where the call stands: call, scan, parse, schema, strings, done, raised
  issues,     \* the local list of issues
  data,       \* the local data, once json.loads has returned
  tree,       \* the first component of the value returned
  exc,        \* what the try block caught: none, JSONDecodeError or Exception
  ran         \* the stages that have run, in order

callVars == << json_str, pc, issues, data, tree, exc, ran >>

(***************************************************************************)
(* The state of the application window (PremiumExamApp)                     *)
(***************************************************************************)
VARIABLES
  editor,          \* the content of json_textbox
  filename,        \* the content of entry_filename
  after_id,        \* _validation_after_id is not None: the debounce timer is pending
  validation_seq,  \* _validation_seq
  pending,         \* _validation_pending_seq and _validation_pending_text
  request_event,   \* _validation_request_event is set
  stop_event,      \* _validation_stop_event is set
  destroyed,       \* destroy() has been called
  m_pc,            \* the handler step the main thread is at, idle between handlers
  m_req,           \* the locals seq and json_str of _run_validation_from_editor
  queue,           \* the callbacks handed to after(0, ...), oldest first
  panel,           \* what _set_issues_panel last showed
  button,          \* btn_generate is enabled
  w_pc,            \* where the validation worker stands
  cell,            \* the variables of the worker loop that apply_result closes over
  w_text,          \* the worker's local json_str
  w_res,           \* the issues validate has returned, not yet stored
  g_pc,            \* where the generation thread stands, idle when there is none
  g,               \* the locals of run_generation
  gens             \* how many generations have been started

mainVars == << editor, filename, after_id, validation_seq, destroyed, m_pc, m_req,
               button, gens >>
sharedVars == << pending, request_event, stop_event, queue, panel >>
workerVars == << w_pc, cell, w_text, w_res >>
genVars == << g_pc, g >>
guiVars == << mainVars, sharedVars, workerVars, genVars >>

(***************************************************************************)
(* The state of one call of _validate_latex_string, with the call of        *)
(* _check_env_balance it makes, and of one call of extract_first_latex_error *)
(***************************************************************************)
VARIABLES
  l_s,        \* the argument s
  l_path,     \* the argument path
  l_pc,       \* the check the call stands before, idle when there is no call
  l_issues,   \* the local list of issues of _validate_latex_string
  e_tokens,   \* the sorted tokens of _check_env_balance
  e_k,        \* how many tokens have been replayed
  e_stack,    \* the stack of open environments
  e_issues,   \* the local list of issues of _check_env_balance
  x_log,      \* the log file and the source file: whether they exist, their lines
  x_pc,       \* where the call of extract_first_latex_error stands
  x_lines,    \* log_lines, once the log has been read
  x_err_idx,  \* err_idx, once found
  x_j,        \* the loop variable j
  x_line_no,  \* line_no: empty for None, else the number in a 1-tuple
  x_ret,      \* the value returned: empty for None, else the issue in a 1-tuple
  runs,       \* per calling thread, the locals of its call of validate_json_and_latex
  returned,   \* what the calls made so far were given and what they returned
  calls       \* how many calls have been made

latexVars == << l_s, l_path, l_pc, l_issues, e_tokens, e_k, e_stack, e_issues >>
logVars == << x_log, x_pc, x_lines, x_err_idx, x_j, x_line_no, x_ret >>
runVars == << runs, returned, calls >>
toolVars == << latexVars, logVars, runVars >>

vars == << callVars, guiVars, toolVars >>

(***************************************************************************)
(* Input texts                                                              *)
(***************************************************************************)
\* the longest text enumerated character by character
MaxRawLen == 5

RawAlphabet == {QUOTE, BSLASH, Ord("f"), Ord("n"), Ord("a"), NL}

ShortTexts == UNION {[1..n -> RawAlphabet] : n \in 0..MaxRawLen}

Q(body) == <<QUOTE>> \o body \o <<QUOTE>>

\* the texts of items joined by sep
RECURSIVE Join(_, _)
Join(items, sep) ==
  IF items = <<>> THEN <<>>
  ELSE IF Len(items) = 1 THEN items[1]
  ELSE items[1] \o sep \o Join(Tail(items), sep)

ArrText(items) == <<Ord("[")>> \o Join(items, <<Ord(",")>>) \o <<Ord("]")>>
ObjText(pairs) == <<Ord("{")>> \o Join(pairs, <<Ord(",")>>) \o <<Ord("}")>>
Pair(key, val) == Q(key) \o <<Ord(":")>> \o val

\* a text nested one level deeper than the decoder's recursion guard allows
TooDeep == [i \in 1..(RecursionLimit + 1) |-> Ord("[")]

\* the locals of run_generation while no generation runs; for is the sequence
\* number current when the text was read, reached the build steps entered
NoGeneration ==
  [text |-> <<>>, data |-> None, issues |-> <<>>, for |-> 0, custom_fn |-> <<>>,
   reached |-> {}]

\* the window after __init__: nothing typed, the worker started
GuiInit ==
  /\ editor = <<>>
  /\ filename = <<>>
  /\ after_id = FALSE
  /\ validation_seq = 0
  /\ pending = [seq |-> 0, text |-> <<>>]
  /\ request_event = FALSE
  /\ stop_event = FALSE
  /\ destroyed = FALSE
  /\ m_pc = "idle"
  /\ m_req = [seq |-> 0, text |-> <<>>]
  /\ queue = <<>>
  /\ panel = [header |-> "unchecked", issues |-> <<>>, by |-> "setup", for |-> 0]
  /\ button = TRUE
  /\ w_pc = "while"
  /\ cell = [seq |-> 0, data |-> None, issues |-> <<>>, for |-> 0]
  /\ w_text = <<>>
  /\ w_res = <<>>
  /\ g_pc = "idle"
  /\ g = NoGeneration
  /\ gens = 0

\* no call of the markup validator or of the log reader is under way
NoLog == [exists |-> FALSE, readable |-> FALSE, text |-> <<>>,
          tex_exists |-> FALSE, tex_readable |-> FALSE, tex_text |-> <<>>]

LatexIdle ==
  /\ l_s = <<>> /\ l_path = <<>> /\ l_pc = "idle" /\ l_issues = <<>>
  /\ e_tokens = <<>> /\ e_k = 0 /\ e_stack = <<>> /\ e_issues = <<>>

LogIdle ==
  /\ x_log = NoLog /\ x_pc = "idle" /\ x_lines = <<>> /\ x_err_idx = <<>> /\ x_j = 0
  /\ x_line_no = <<>> /\ x_ret = <<>>

\* the threads that call validate_json_and_latex: the validation worker and a
\* generation thread
Runs == {"worker", "generation"}

\* the locals of a thread that is not inside a call
NoRun == [text |-> <<>>, pc |-> "idle", issues |-> <<>>, data |-> None]

RunsIdle ==
  /\ runs = [r \in Runs |-> NoRun]
  /\ returned = {}
  /\ calls = 0

CallInit ==
  /\ pc = "call"
  /\ issues = <<>>
  /\ data = None
  /\ tree = None
  /\ exc = "none"
  /\ ran = <<>>

(***************************************************************************)
(* validate_json_and_latex, one stage per step                              *)
(***************************************************************************)
\* if not json_str: return None, issues
Enter ==
  /\ pc = "call"
  /\ pc' = IF json_str = <<>> THEN "done" ELSE "scan"
  /\ UNCHANGED << json_str, issues, data, tree, exc, ran >>
  /\ UNCHANGED << guiVars, toolVars >>

\* issues.extend(_find_suspicious_json_escapes(json_str))
EscapeScan ==
  /\ pc = "scan"
  /\ issues' = issues \o FindSuspiciousJsonEscapes(json_str)
  /\ ran' = Append(ran, "scan")
  /\ pc' = "parse"
  /\ UNCHANGED << json_str, data, tree, exc >>
  /\ UNCHANGED << guiVars, toolVars >>

\* Parse that goes on to the schema stage after a failure
ParseWithoutReturn ==
  /\ pc = "parse"
  /\ \E r \in {JsonLoads(json_str)} :
     IF r.ok
     THEN /\ data' = r.val
          /\ UNCHANGED << issues, exc >>
     ELSE /\ issues' = Append(issues, IF r.kind = "decode"
                                      THEN JsonDecodeIssue(json_str, r)
                                      ELSE JsonExceptionIssue)
          /\ exc' = IF r.kind = "decode" THEN "JSONDecodeError" ELSE "Exception"
          /\ UNCHANGED data
  /\ pc' = "schema"
  /\ ran' = Append(ran, "parse")
  /\ UNCHANGED << json_str, tree >>
  /\ UNCHANGED << guiVars, toolVars >>

\* the try block around json.loads, with its two except clauses
Parse ==
  /\ pc = "parse"
  /\ \E r \in {JsonLoads(json_str)} :
     IF r.ok
     THEN /\ data' = r.val
          /\ pc' = "schema"
          /\ UNCHANGED << issues, exc >>
     ELSE /\ issues' = Append(issues, IF r.kind = "decode"
                                      THEN JsonDecodeIssue(json_str, r)
                                      ELSE JsonExceptionIssue)
          /\ exc' = IF r.kind = "decode" THEN "JSONDecodeError" ELSE "Exception"
          /\ pc' = "done"
          /\ UNCHANGED data
  /\ ran' = Append(ran, "parse")
  /\ UNCHANGED << json_str, tree >>
  /\ UNCHANGED << guiVars, toolVars >>

\* issues.extend(_validate_schema(data)); an exception leaves the call
Schema ==
  /\ pc = "schema"
  /\ \E r \in {ValidateSchema(data)} :
     IF r.raised
     THEN /\ pc' = "raised"
          /\ UNCHANGED issues
     ELSE /\ pc' = "strings"
          /\ issues' = issues \o r.issues
  /\ ran' = Append(ran, "schema")
  /\ UNCHANGED << json_str, data, tree, exc >>
  /\ UNCHANGED << guiVars, toolVars >>

\* issues.extend(_validate_all_strings(data)); return data, issues
Strings ==
  /\ pc = "strings"
  /\ issues' = issues \o ValidateAllStrings(data)
  /\ tree' = data
  /\ ran' = Append(ran, "strings")
  /\ pc' = "done"
  /\ UNCHANGED << json_str, data, exc >>
  /\ UNCHANGED << guiVars, toolVars >>

CallNext == Enter \/ EscapeScan \/ Parse \/ Schema \/ Strings

(***************************************************************************)
(* Every short text, and some longer ones                                   *)
(***************************************************************************)
ExtraTexts ==
  { LitNull, LitTrue, S(<< "1" >>), S(<< "[", "]" >>), S(<< "{", "}" >>), S(<< " " >>),
    TooDeep,
    S(<< "\\", "f", "a", "\"", "\\", "f", "a", "\\", "\\", "n", "a", "\"" >>),
    ArrText(<< Q(S(<< "\\", "f", "a" >>)), Q(S(<< "\\", "n", "a" >>)) >>),
    Q(S(<< "\\", "f", "a" >>)) \o Q(S(<< "\\", "n", "a" >>)),
    ObjText(<< Pair(S(<< "a" >>),
                    ObjText(<< Pair(K_type, Q(S(<< "\\", "f", "a" >>))) >>)) >>),
    ObjText(<< Pair(K_type, Q(S(<< "\\", "f", "a" >>))) >>) }

RawInit ==
  json_str \in ShortTexts \cup ExtraTexts /\ CallInit /\ GuiInit /\ LatexIdle /\ LogIdle /\ RunsIdle

SpecRaw == RawInit /\ [][CallNext]_vars
(***************************************************************************)
(* Exam documents                                                           *)
(***************************************************************************)
\* the longest sections array enumerated
MaxSections == 2

\* one text of every kind of JSON value
ValueKinds ==
  { Q(S(<< "x" >>)), S(<< "1" >>), LitTrue, LitNull, S(<< "[", "]" >>), S(<< "{", "}" >>) }

Doc(meta, sections) == ObjText(<< Pair(K_meta, meta), Pair(K_sections, sections) >>)
Meta(title, subject) == ObjText(<< Pair(K_title, title), Pair(K_subject, subject) >>)
Section(type, questions) == ObjText(<< Pair(K_type, type), Pair(K_questions, questions) >>)
Question(content, options, figure, image) ==
  ObjText(<< Pair(K_content, content), Pair(K_options, options),
             Pair(K_figure, figure), Pair(K_image, image) >>)

GoodMeta == Meta(Q(S(<< "t" >>)), Q(S(<< "s" >>)))
GoodQuestion == Question(Q(S(<< "c" >>)), ArrText(<< Q(S(<< "a" >>)) >>), LitNull, LitNull)
GoodSection == Section(Q(T_single_choice), ArrText(<< GoodQuestion >>))

\* a well-formed document with one field replaced by a value of each kind
FieldDocs ==
  UNION { { Doc(v, ArrText(<< GoodSection >>)),
            Doc(GoodMeta, v),
            Doc(GoodMeta, ArrText(<< Section(v, ArrText(<< GoodQuestion >>)) >>)),
            Doc(GoodMeta, ArrText(<< Section(Q(T_single_choice), v) >>)),
            Doc(GoodMeta, ArrText(<< Section(Q(T_single_choice), ArrText(<<
              Question(v, ArrText(<< Q(S(<< "a" >>)) >>), LitNull, LitNull) >>)) >>)),
            Doc(GoodMeta, ArrText(<< Section(Q(T_single_choice), ArrText(<<
              Question(Q(S(<< "c" >>)), v, LitNull, LitNull) >>)) >>)),
            Doc(GoodMeta, ArrText(<< Section(Q(T_single_choice), ArrText(<<
              Question(Q(S(<< "c" >>)), ArrText(<< Q(S(<< "a" >>)) >>), v, LitNull) >>)) >>)),
            Doc(GoodMeta, ArrText(<< Section(Q(T_single_choice), ArrText(<<
              Question(Q(S(<< "c" >>)), ArrText(<< Q(S(<< "a" >>)) >>), LitNull, v) >>)) >>))
          } : v \in ValueKinds }

\* sections, well-formed and malformed
SectionChoices ==
  { S(<< "1" >>),
    Section(Q(T_fill), S(<< "1" >>)),
    Section(Q(T_fill), ArrText(<< S(<< "1" >>), ObjText(<< >>) >>)),
    Section(Q(S(<< "$" >>)), ArrText(<< ObjText(<< Pair(K_content, Q(S(<< "$" >>))) >>) >>)),
    Section(S(<< "[", "]" >>), Q(S(<< "$" >>))) }

SectionDocs ==
  { Doc(GoodMeta, ArrText(ss)) :
      ss \in UNION { [1..n -> SectionChoices] : n \in 1..MaxSections } }

\* documents whose top-level value or sections field stops the schema walk
TopLevelDocs ==
  ValueKinds
  \cup { Q(S(<< "$" >>)),
         ArrText(<< Q(S(<< "$" >>)) >>),
         ObjText(<< Pair(K_sections, Q(S(<< "$" >>))) >>),
         ObjText(<< Pair(K_meta, Q(S(<< "%" >>))), Pair(K_sections, LitNull) >>),
         S(<< "[", "1" >>),
         <<>> }

DocInit ==
  /\ json_str \in FieldDocs \cup SectionDocs \cup TopLevelDocs
  /\ CallInit /\ GuiInit /\ LatexIdle /\ LogIdle /\ RunsIdle

SpecDoc == DocInit /\ [][CallNext]_vars

(***************************************************************************)
(* Documents of questions with and without options                          *)
(***************************************************************************)
\* a question with a content and the given options, and one without the key
WithOptions(options) ==
  ObjText(<< Pair(K_content, Q(S(<< "c" >>))), Pair(K_options, options) >>)
WithoutOptions == ObjText(<< Pair(K_content, Q(S(<< "c" >>))) >>)

OptionQuestions ==
  { WithoutOptions }
  \cup { WithOptions(v) : v \in ValueKinds \cup { ArrText(<< Q(S(<< "a" >>)) >>),
                                                Q(S(<< "$" >>)) } }

SectionTypes ==
  { Q(T_single_choice), Q(T_multiple_choice), Q(T_fill), Q(T_problem), Q(S(<< "x" >>)),
    LitNull }

\* the example: no meta, one single_choice section, one question with options: []
OptionsExample ==
  ObjText(<< Pair(K_sections, ArrText(<<
    Section(Q(T_single_choice), ArrText(<<
      ObjText(<< Pair(K_content, Q(S(<< "c" >>))),
                 Pair(K_options, S(<< "[", "]" >>)) >>) >>)) >>)) >>)

\* a well-formed section followed by a section of each type whose first question
\* is of each kind and whose second question has options or lacks them
OptionDocs ==
  { Doc(GoodMeta, ArrText(<< GoodSection, Section(t, ArrText(<< q1, q2 >>)) >>)) :
      t \in SectionTypes, q1 \in OptionQuestions,
      q2 \in { WithoutOptions, WithOptions(ArrText(<< Q(S(<< "a" >>)) >>)) } }
  \cup { OptionsExample }

OptionInit ==
  /\ json_str \in OptionDocs
  /\ CallInit /\ GuiInit /\ LatexIdle /\ LogIdle /\ RunsIdle

SpecOptions == OptionInit /\ [][CallNext]_vars

(***************************************************************************)
(* The window: editor, debounce timer, validation worker, main loop         *)
(***************************************************************************)
\* how many validation requests the editor issues at most
MaxRequests == 2

\* how many generations are started at most
MaxGenerations == 1

\* what is typed into the editor: blanks, a document with a title and a warning,
\* a text that does not parse, a document on which the schema validator raises
EditorTexts ==
  { S(<< " " >>),
    ObjText(<< Pair(K_meta, ObjText(<< Pair(K_title, Q(S(<< "T" >>))) >>)),
               Pair(K_sections, S(<< "[", "]" >>)) >>),
    S(<< "[", "1" >>),
    ObjText(<< Pair(K_sections,
                    ArrText(<< ObjText(<< Pair(K_type, S(<< "[", "]" >>)) >>) >>)) >>) }

\* str.isspace
IsSpace(c) ==
  c \in {9, 10, 11, 12, 13, 28, 29, 30, 31, 32, 133, 160, 5760, 8232, 8233, 8239, 8287,
         12288} \cup (8192..8202)

Trim(s, keep) ==
  IF keep = {} THEN <<>>
  ELSE SubSeq(s, CHOOSE i \in keep : \A j \in keep : i <= j,
                 CHOOSE i \in keep : \A j \in keep : j <= i)

\* s.strip()
StripText(s) == Trim(s, {i \in DOMAIN s : ~IsSpace(s[i])})

\* widget.get("0.0", "end"): the content and the newline the widget ends with
TextboxGet(content) == content \o << NL >>

\* _set_issues_panel(issues, header); by and for record which thread showed it and
\* for which request the issues were computed
Panel(shown, header, by, for) ==
  [header |-> header, issues |-> shown, by |-> by, for |-> for]

\* a callback of the main loop: apply_result or the re-enabling of the button
\* (status_label is not part of the state, nor are the callbacks of flash_status)
Callback(kind) == [kind |-> kind]

\* self.after(0, cb): after destroy() the call raises and nothing is queued
Post(q, cb) == IF destroyed THEN q ELSE Append(q, cb)

\* on_json_change after a key release: the debounce timer is (re)started
KeyRelease ==
  /\ m_pc = "idle" /\ ~destroyed
  /\ validation_seq < MaxRequests
  /\ \E t \in EditorTexts \ {editor} : editor' = t
  /\ after_id' = TRUE
  /\ UNCHANGED << filename, validation_seq, destroyed, m_pc, m_req, button, gens >>
  /\ UNCHANGED << sharedVars, workerVars, genVars, callVars, toolVars >>

\* _run_validation_from_editor, up to the lock
RunValidationFromEditor ==
  /\ m_pc = "idle" /\ ~destroyed
  /\ after_id
  /\ after_id' = FALSE
  /\ validation_seq' = validation_seq + 1
  /\ m_req' = [seq |-> validation_seq + 1, text |-> StripText(TextboxGet(editor))]
  /\ panel' = Panel(<<>>, "validating", "request", validation_seq + 1)
  /\ m_pc' = "rv_write"
  /\ UNCHANGED << editor, filename, destroyed, button, gens >>
  /\ UNCHANGED << pending, request_event, stop_event, queue >>
  /\ UNCHANGED << workerVars, genVars, callVars, toolVars >>

\* with self._validation_lock: the pending pair is written
WritePending ==
  /\ m_pc = "rv_write"
  /\ pending' = m_req
  /\ m_pc' = "rv_set"
  /\ UNCHANGED << editor, filename, after_id, validation_seq, destroyed, m_req, button, gens >>
  /\ UNCHANGED << request_event, stop_event, queue, panel >>
  /\ UNCHANGED << workerVars, genVars, callVars, toolVars >>

\* self._validation_request_event.set()
SetRequestEvent ==
  /\ m_pc = "rv_set"
  /\ request_event' = TRUE
  /\ m_pc' = "idle"
  /\ m_req' = [seq |-> 0, text |-> <<>>]
  /\ UNCHANGED << editor, filename, after_id, validation_seq, destroyed, button, gens >>
  /\ UNCHANGED << pending, stop_event, queue, panel >>
  /\ UNCHANGED << workerVars, genVars, callVars, toolVars >>

\* the main loop runs the oldest callback: apply_result up to its two tests, or
\* the re-enabling of the button
RunCallback ==
  /\ m_pc = "idle" /\ ~destroyed
  /\ queue # <<>>
  /\ queue' = Tail(queue)
  /\ m_pc' = IF /\ Head(queue).kind = "apply_result"
                /\ ~stop_event
                /\ cell.seq = validation_seq
             THEN "apply_panel" ELSE "idle"
  /\ button' = IF Head(queue).kind = "enable" THEN TRUE ELSE button
  /\ UNCHANGED << editor, filename, after_id, validation_seq, destroyed, m_req, gens >>
  /\ UNCHANGED << pending, request_event, stop_event, panel >>
  /\ UNCHANGED << workerVars, genVars, callVars, toolVars >>

\* apply_result: self._set_issues_panel(issues)
ApplyPanel ==
  /\ m_pc = "apply_panel"
  /\ panel' = Panel(cell.issues, "result", "worker", cell.for)
  /\ m_pc' = "apply_title"
  /\ UNCHANGED << editor, filename, after_id, validation_seq, destroyed, m_req, button, gens >>
  /\ UNCHANGED << pending, request_event, stop_event, queue >>
  /\ UNCHANGED << workerVars, genVars, callVars, toolVars >>

\* data.get("meta", {}).get("title") when it is a string that can fill the entry
AutofillTitle(d) ==
  IF /\ IsDict(d) /\ Truthy(d)
     /\ HasKey(d, K_meta) /\ IsDict(Get(d, K_meta))
     /\ IsStr(Get(Get(d, K_meta), K_title)) /\ Truthy(Get(Get(d, K_meta), K_title))
  THEN Get(Get(d, K_meta), K_title).s
  ELSE <<>>

\* apply_result: the title fills an empty file name entry
ApplyTitle ==
  /\ m_pc = "apply_title"
  /\ filename' = IF AutofillTitle(cell.data) # <<>> /\ StripText(filename) = <<>>
                 THEN AutofillTitle(cell.data) ELSE filename
  /\ m_pc' = "idle"
  /\ UNCHANGED << editor, after_id, validation_seq, destroyed, m_req, button, gens >>
  /\ UNCHANGED << sharedVars, workerVars, genVars, callVars, toolVars >>

\* _on_close: the stop event, the request event, destroy()
CloseStop ==
  /\ m_pc = "idle" /\ ~destroyed
  /\ stop_event' = TRUE
  /\ m_pc' = "close_set"
  /\ UNCHANGED << editor, filename, after_id, validation_seq, destroyed, m_req, button, gens >>
  /\ UNCHANGED << pending, request_event, queue, panel >>
  /\ UNCHANGED << workerVars, genVars, callVars, toolVars >>

CloseSet ==
  /\ m_pc = "close_set"
  /\ request_event' = TRUE
  /\ m_pc' = "close_destroy"
  /\ UNCHANGED << editor, filename, after_id, validation_seq, destroyed, m_req, button, gens >>
  /\ UNCHANGED << pending, stop_event, queue, panel >>
  /\ UNCHANGED << workerVars, genVars, callVars, toolVars >>

CloseDestroy ==
  /\ m_pc = "close_destroy"
  /\ destroyed' = TRUE
  /\ m_pc' = "closed"
  /\ UNCHANGED << editor, filename, after_id, validation_seq, m_req, button, gens >>
  /\ UNCHANGED << sharedVars, workerVars, genVars, callVars, toolVars >>

\* start_generation_thread
StartGenerationThread ==
  /\ m_pc = "idle" /\ ~destroyed
  /\ button
  /\ gens < MaxGenerations
  /\ button' = FALSE
  /\ gens' = gens + 1
  /\ g_pc' = "read"
  /\ UNCHANGED << editor, filename, after_id, validation_seq, destroyed, m_pc, m_req >>
  /\ UNCHANGED << g, sharedVars, workerVars, callVars, toolVars >>

(***************************************************************************)
(* _validation_worker_loop                                                  *)
(***************************************************************************)
\* while not self._validation_stop_event.is_set()
WorkerLoopTest ==
  /\ w_pc = "while"
  /\ w_pc' = IF stop_event THEN "exited" ELSE "wait"
  /\ UNCHANGED << cell, w_text, w_res, mainVars, sharedVars, genVars, callVars, toolVars >>

\* self._validation_request_event.wait()
WorkerWait ==
  /\ w_pc = "wait"
  /\ request_event
  /\ w_pc' = "clear"
  /\ UNCHANGED << cell, w_text, w_res, mainVars, sharedVars, genVars, callVars, toolVars >>

\* self._validation_request_event.clear()
WorkerClear ==
  /\ w_pc = "clear"
  /\ request_event' = FALSE
  /\ w_pc' = "stop_test"
  /\ UNCHANGED << pending, stop_event, queue, panel >>
  /\ UNCHANGED << cell, w_text, w_res, mainVars, genVars, callVars, toolVars >>

\* if self._validation_stop_event.is_set(): break
WorkerStopTest ==
  /\ w_pc = "stop_test"
  /\ w_pc' = IF stop_event THEN "exited" ELSE "read"
  /\ UNCHANGED << cell, w_text, w_res, mainVars, sharedVars, genVars, callVars, toolVars >>

\* with self._validation_lock: seq and json_str are read
WorkerRead ==
  /\ w_pc = "read"
  /\ cell' = [cell EXCEPT !.seq = pending.seq]
  /\ w_text' = pending.text
  /\ w_pc' = "validate"
  /\ UNCHANGED << w_res, mainVars, sharedVars, genVars, callVars, toolVars >>

\* validate_json_and_latex(json_str) and the store of data; an exception ends the
\* thread
WorkerValidate ==
  /\ w_pc = "validate"
  /\ \E r \in {ValidateJsonAndLatex(w_text)} :
       IF r.outcome = "raised"
       THEN /\ w_pc' = "dead"
            /\ UNCHANGED << cell, w_res >>
       ELSE /\ cell' = [cell EXCEPT !.data = r.tree]
            /\ w_res' = r.issues
            /\ w_pc' = "store"
  /\ UNCHANGED << w_text, mainVars, sharedVars, genVars, callVars, toolVars >>

\* the store of issues, second target of the assignment
WorkerStore ==
  /\ w_pc = "store"
  /\ cell' = [cell EXCEPT !.issues = w_res, !.for = cell.seq]
  /\ w_res' = <<>>
  /\ w_text' = <<>>
  /\ w_pc' = "post"
  /\ UNCHANGED << mainVars, sharedVars, genVars, callVars, toolVars >>

\* self.after(0, apply_result)
WorkerPost ==
  /\ w_pc = "post"
  /\ queue' = Post(queue, Callback("apply_result"))
  /\ w_pc' = "while"
  /\ UNCHANGED << pending, request_event, stop_event, panel >>
  /\ UNCHANGED << cell, w_text, w_res, mainVars, genVars, callVars, toolVars >>

(***************************************************************************)
(* run_generation, in its own thread                                        *)
(***************************************************************************)
IsError(d) == d.severity = "error"
IsWarning(d) == d.severity = "warning"
HasAny(ds, Test(_)) == \E k \in DOMAIN ds : Test(ds[k])

\* the diagnostic extract_first_latex_error builds from the log
LatexDetail == Issue("error", "latex_error", <<>>, <<>>, <<>>, <<>>, <<>>)

\* the text and the file name are read; an empty text ends the run
GenRead ==
  /\ g_pc = "read"
  /\ g' = [g EXCEPT !.text = StripText(TextboxGet(editor)),
                    !.custom_fn = StripText(filename),
                    !.for = validation_seq,
                    !.reached = {}]
  /\ IF StripText(TextboxGet(editor)) = <<>>
     THEN g_pc' = "finally"
     ELSE g_pc' = "validate"
  /\ UNCHANGED sharedVars
  /\ UNCHANGED << mainVars, workerVars, callVars, toolVars >>

\* data, issues = validate_json_and_latex(json_str); except Exception reports
GenValidate ==
  /\ g_pc = "validate"
  /\ \E r \in {ValidateJsonAndLatex(g.text)} :
       IF r.outcome = "raised"
       THEN /\ g_pc' = "finally"
            /\ UNCHANGED g
       ELSE /\ g' = [g EXCEPT !.data = r.tree, !.issues = r.issues]
            /\ g_pc' = "panel"
  /\ UNCHANGED sharedVars
  /\ UNCHANGED << mainVars, workerVars, callVars, toolVars >>

\* the panel is written and the run goes on to the build whatever was found
GenPanelWithoutGate ==
  /\ g_pc = "panel"
  /\ panel' = IF destroyed THEN panel ELSE Panel(g.issues, "result", "generation", g.for)
  /\ g_pc' = "build"
  /\ UNCHANGED << pending, request_event, stop_event, queue >>
  /\ UNCHANGED << g, mainVars, workerVars, callVars, toolVars >>

\* self._set_issues_panel(issues); then errors end the run, warnings do not
GenPanel ==
  /\ g_pc = "panel"
  /\ panel' = IF destroyed THEN panel ELSE Panel(g.issues, "result", "generation", g.for)
  /\ g_pc' = IF HasAny(g.issues, IsError) THEN "finally" ELSE "build"
  /\ UNCHANGED << pending, request_event, stop_event, queue >>
  /\ UNCHANGED << g, mainVars, workerVars, callVars, toolVars >>

\* whether the folder name can be computed from the title without an exception
TitleUsable(d) ==
  \/ ~HasKey(d, K_meta)
  \/ /\ IsDict(Get(d, K_meta))
     /\ \/ ~HasKey(Get(d, K_meta), K_title)
        \/ IsStr(Get(Get(d, K_meta), K_title))
        \/ IsDict(Get(Get(d, K_meta), K_title))
        \/ /\ IsList(Get(Get(d, K_meta), K_title))
           /\ \A k \in DOMAIN Get(Get(d, K_meta), K_title).items :
                IsStr(Get(Get(d, K_meta), K_title).items[k])

\* the steps of the build a run enters when it gets as far as `last`
BuildSteps(last) ==
  CASE last = "plan"    -> {}
    [] last = "process" -> {}
    [] last = "render"  -> {"render"}
    [] last = "compile" -> {"render", "compile"}

\* the folder name and directories, process_data, render, compile_pdf: the run ends
\* at the first step that fails (file system, data, template) or goes on to collect
GenBuild ==
  /\ g_pc = "build"
  /\ \E last \in {"plan", "process", "render", "compile"} :
       /\ (last # "plan") => (g.custom_fn # <<>> \/ TitleUsable(g.data))
       /\ g' = [g EXCEPT !.reached = BuildSteps(last)]
       /\ g_pc' = IF last = "compile" THEN "collect" ELSE "finally"
  /\ UNCHANGED << mainVars, sharedVars, workerVars, callVars, toolVars >>

\* the PDF is copied, or the first error of the log is shown with the issues
GenCollect ==
  /\ g_pc = "collect"
  /\ \E outcome \in {"success", "move_failed", "latex_failed", "compile_failed"} :
       /\ panel' = IF outcome = "latex_failed" /\ ~destroyed
                   THEN Panel(Append(g.issues, LatexDetail), "latex_failed",
                              "generation", g.for)
                   ELSE panel
  /\ g_pc' = "finally"
  /\ UNCHANGED << pending, request_event, stop_event, queue >>
  /\ UNCHANGED << g, mainVars, workerVars, callVars, toolVars >>

\* finally: the button is re-enabled by the main loop
GenFinally ==
  /\ g_pc = "finally"
  /\ queue' = Post(queue, Callback("enable"))
  /\ g_pc' = "idle"
  /\ g' = NoGeneration
  /\ UNCHANGED << pending, request_event, stop_event, panel >>
  /\ UNCHANGED << mainVars, workerVars, callVars, toolVars >>

MainNext ==
  \/ KeyRelease \/ RunValidationFromEditor \/ WritePending \/ SetRequestEvent
  \/ RunCallback \/ ApplyPanel \/ ApplyTitle
  \/ CloseStop \/ CloseSet \/ CloseDestroy
  \/ StartGenerationThread

WorkerNext ==
  \/ WorkerLoopTest \/ WorkerWait \/ WorkerClear \/ WorkerStopTest
  \/ WorkerRead \/ WorkerValidate \/ WorkerStore \/ WorkerPost

GenNext ==
  \/ GenRead \/ GenValidate \/ GenPanel \/ GenBuild \/ GenCollect \/ GenFinally

GuiNext == MainNext \/ WorkerNext \/ GenNext

\* no call of the validator is followed step by step while the window runs
WindowInit == GuiInit /\ json_str = <<>> /\ CallInit /\ LatexIdle /\ LogIdle /\ RunsIdle

SpecGui == WindowInit /\ [][GuiNext]_vars

\* the editor, the main loop and the worker, no generation being started
RequestNext ==
  \/ KeyRelease \/ RunValidationFromEditor \/ WritePending \/ SetRequestEvent
  \/ RunCallback \/ ApplyPanel \/ ApplyTitle
  \/ CloseStop \/ CloseSet \/ CloseDestroy
  \/ WorkerNext

\* the main loop runs its timers, its callbacks and the rest of a handler it has
\* begun, the worker thread is scheduled and its call of the validator ends, by a
\* return or an exception (the step WorkerValidate, always possible at its place, is
\* taken); what the user does (typing, closing) may never happen
RequestFairness ==
  /\ WF_vars(RunValidationFromEditor)
  /\ WF_vars(WritePending \/ SetRequestEvent)
  /\ WF_vars(RunCallback)
  /\ WF_vars(ApplyPanel \/ ApplyTitle)
  /\ WF_vars(CloseSet \/ CloseDestroy)
  /\ WF_vars(WorkerLoopTest \/ WorkerWait \/ WorkerClear \/ WorkerStopTest)
  /\ WF_vars(WorkerRead \/ WorkerStore \/ WorkerPost)
  /\ []<>(w_pc # "validate")

SpecRequests == WindowInit /\ [][RequestNext]_vars /\ RequestFairness

(***************************************************************************)
(* One call of _validate_latex_string, check by check                       *)
(***************************************************************************)
\* how many begin/end tokens an enumerated string holds at most
MaxTokens == 4

\* how many pieces an enumerated markup string is made of at most
MaxPieces == 3

EnvNames == { S(<< "a" >>), S(<< "b" >>) }

BeginText(name) == P_begin \o name \o S(<< "}" >>)
EndText(name) == P_end \o name \o S(<< "}" >>)

EnvPieces == { BeginText(n) : n \in EnvNames } \cup { EndText(n) : n \in EnvNames }

\* every sequence of up to MaxTokens begin and end tokens over two names, and
\* strings whose braces do not close where the tokens suggest
EnvStrings ==
  { Join(ps, <<>>) : ps \in UNION { [1..n -> EnvPieces] : n \in 0..MaxTokens } }
  \cup { S(<< "\\", "b", "e", "g", "i", "n", "{", "a", "\\", "e", "n", "d", "{", "b", "}" >>),
         S(<< "\\", "b", "e", "g", "i", "n", "{", "}" >>),
         S(<< "x" >>) \o EndText(S(<< "a" >>)) \o S(<< "y" >>) \o BeginText(S(<< "a" >>)) }

MarkupPieces ==
  { S(<< "$" >>), D_dollar2, S(<< "\\" >>), D_lparen, D_rparen, D_lbrack, D_rbrack,
    S(<< "%" >>), S(<< "_" >>), S(<< "a" >>), W_blank }

\* every string of up to MaxPieces pieces, and strings with the other checks'
\* triggers: the other two special characters, a control character, \left
MarkupStrings ==
  { Join(ps, <<>>) : ps \in UNION { [1..n -> MarkupPieces] : n \in 0..MaxPieces } }
  \cup { S(<< "&" >>), S(<< "#" >>), S(<< "$", "&", "#", "$" >>), S(<< "\\", "&", "#" >>),
         S(<< "&", "$", "#", "$", "&", "&" >>),
         << 12 >> \o S(<< "$" >>), << 12 >> \o S(<< "$", "$" >>),
         S(<< "\\", "n", "$", "{" >>), S(<< "\\", "n", "$", "$", "{" >>),
         W_left \o S(<< "$" >>), W_left \o W_right \o S(<< "$", "a", "$" >>),
         BeginText(S(<< "a" >>)) \o S(<< "$" >>),
         EndText(S(<< "a" >>)) \o S(<< "$", "_", "$" >>),
         S(<< "\\", "\\", "(", "a", "\\", ")", "_" >>),
         S(<< "\\", "\\", "[", "_", "\\", "]", "%" >>),
         S(<< "a", "\\", "(", "\\", ")", "&" >>) }

\* the path of a content field, and paths of fields that hold no markup
ContentPath == S(<< "c" >>)
TagPaths == { S(<< "s", ".", "t", "y", "p", "e" >>), S(<< "q", ".", "i", "d" >>) }

LatexInit ==
  /\ \/ l_s \in EnvStrings \cup MarkupStrings /\ l_path = ContentPath
     \/ l_s \in { S(<< "$" >>), S(<< "_" >>) } /\ l_path \in TagPaths
  /\ l_pc = "call"
  /\ l_issues = <<>>
  /\ e_tokens = <<>> /\ e_k = 0 /\ e_stack = <<>> /\ e_issues = <<>>
  /\ json_str = <<>> /\ CallInit /\ GuiInit /\ LogIdle /\ RunsIdle

\* a check that appends what it found and goes on to the next check
Check(here, found, next) ==
  /\ l_pc = here
  /\ l_issues' = l_issues \o found
  /\ l_pc' = next
  /\ UNCHANGED << l_s, l_path, e_tokens, e_k, e_stack, e_issues >>
  /\ UNCHANGED << callVars, guiVars, logVars, runVars >>

\* if path.endswith(".type") or path.endswith(".id"): return issues
LatexEnter ==
  /\ l_pc = "call"
  /\ l_pc' = IF SkippedPath(l_path) THEN "done" ELSE "control"
  /\ UNCHANGED << l_s, l_path, l_issues, e_tokens, e_k, e_stack, e_issues >>
  /\ UNCHANGED << callVars, guiVars, logVars, runVars >>

\* 1) control characters
LatexControl == Check("control", ControlCharIssues(l_s, l_path), "backslash_n")

\* 1.5) the two characters backslash, n
LatexBackslashN ==
  Check("backslash_n",
        IF Contains(l_s, W_bsn)
        THEN << PathIssue("error", "backslash_n", <<>>, l_path) >> ELSE <<>>,
        "dollar")

\* 2) the parity of the unescaped dollars
LatexDollar == Check("dollar", DollarParityIssues(l_s, l_path), "dollar2")

\* 3) a double dollar
LatexDollar2 ==
  Check("dollar2",
        IF HasUnescaped(l_s, D_dollar2)
        THEN << PathIssue("warning", "double_dollar", <<>>, l_path) >> ELSE <<>>,
        "braces")

\* 4) the counts of the braces
LatexBraces ==
  Check("braces",
        IF CountChar(l_s, Ord("{")) # CountChar(l_s, Ord("}"))
        THEN << PathIssue("warning", "braces", <<>>, l_path) >> ELSE <<>>,
        "left_right")

\* 5) \left and \right
LatexLeftRight ==
  Check("left_right",
        IF CountCommand(l_s, W_left) # CountCommand(l_s, W_right)
        THEN << PathIssue("warning", "left_right", <<>>, l_path) >> ELSE <<>>,
        "env")

\* _check_env_balance up to the sort: without tokens it returns at once
EnvEnter ==
  /\ l_pc = "env"
  /\ \E toks \in { EnvTokens(l_s) } :
       /\ e_tokens' = toks
       /\ l_pc' = IF toks = <<>> THEN "env_return" ELSE "replay"
  /\ e_k' = 0 /\ e_stack' = <<>> /\ e_issues' = <<>>
  /\ UNCHANGED << l_s, l_path, l_issues >>
  /\ UNCHANGED << callVars, guiVars, logVars, runVars >>

\* one iteration of the replay, with the pop leaving the stack untouched
EnvTokenKeepingTop ==
  /\ l_pc = "replay"
  /\ e_k < Len(e_tokens)
  /\ e_k' = e_k + 1
  /\ \E tok \in { e_tokens[e_k + 1] } :
       IF tok.kind = "begin"
       THEN /\ e_stack' = Append(e_stack, tok.name)
            /\ UNCHANGED e_issues
       ELSE IF e_stack = <<>>
       THEN /\ e_issues' = Append(e_issues, PathIssue("warning", "end_without_begin",
                                                      << tok.name >>, l_path))
            /\ UNCHANGED e_stack
       ELSE /\ e_stack' = IF e_stack[Len(e_stack)] # tok.name THEN e_stack
                          ELSE SubSeq(e_stack, 1, Len(e_stack) - 1)
            /\ e_issues' = IF e_stack[Len(e_stack)] # tok.name
                           THEN Append(e_issues,
                                       PathIssue("warning", "env_mismatch",
                                                 << e_stack[Len(e_stack)], tok.name >>,
                                                 l_path))
                           ELSE e_issues
  /\ UNCHANGED << l_s, l_path, l_pc, l_issues, e_tokens >>
  /\ UNCHANGED << callVars, guiVars, logVars, runVars >>

\* one iteration of the replay: push on begin, pop and compare on end
EnvToken ==
  /\ l_pc = "replay"
  /\ e_k < Len(e_tokens)
  /\ e_k' = e_k + 1
  /\ \E tok \in { e_tokens[e_k + 1] } :
       IF tok.kind = "begin"
       THEN /\ e_stack' = Append(e_stack, tok.name)
            /\ UNCHANGED e_issues
       ELSE IF e_stack = <<>>
       THEN /\ e_issues' = Append(e_issues, PathIssue("warning", "end_without_begin",
                                                      << tok.name >>, l_path))
            /\ UNCHANGED e_stack
       ELSE /\ e_stack' = SubSeq(e_stack, 1, Len(e_stack) - 1)
            /\ e_issues' = IF e_stack[Len(e_stack)] # tok.name
                           THEN Append(e_issues,
                                       PathIssue("warning", "env_mismatch",
                                                 << e_stack[Len(e_stack)], tok.name >>,
                                                 l_path))
                           ELSE e_issues
  /\ UNCHANGED << l_s, l_path, l_pc, l_issues, e_tokens >>
  /\ UNCHANGED << callVars, guiVars, logVars, runVars >>

\* for name in reversed(stack): the environments left open
EnvLeftOpen ==
  /\ l_pc = "replay"
  /\ e_k = Len(e_tokens)
  /\ e_issues' = e_issues \o LeftOpenIssues(e_stack, l_path)
  /\ l_pc' = "env_return"
  /\ UNCHANGED << l_s, l_path, l_issues, e_tokens, e_k, e_stack >>
  /\ UNCHANGED << callVars, guiVars, logVars, runVars >>

\* 6) issues.extend(_check_env_balance(s, path))
EnvReturn ==
  /\ l_pc = "env_return"
  /\ l_issues' = l_issues \o e_issues
  /\ l_pc' = "special"
  /\ UNCHANGED << l_s, l_path, e_tokens, e_k, e_stack, e_issues >>
  /\ UNCHANGED << callVars, guiVars, logVars, runVars >>

\* 7) the special characters outside the math segments and the placeholder
LatexSpecial ==
  Check("special",
        SpecialCharIssues(RemoveAll(StripMathSegments(l_s), W_blank), l_path),
        "done")

LatexNext ==
  \/ LatexEnter \/ LatexControl \/ LatexBackslashN \/ LatexDollar \/ LatexDollar2
  \/ LatexBraces \/ LatexLeftRight
  \/ EnvEnter \/ EnvToken \/ EnvLeftOpen \/ EnvReturn
  \/ LatexSpecial

SpecLatex == LatexInit /\ [][LatexNext]_vars

(***************************************************************************)
(* One call of extract_first_latex_error                                    *)
(***************************************************************************)
\* how many lines the loop over j looks at, the fatal-error line included
ScanWindow == 20

\* the largest number of lines between the fatal-error line and the line that
\* holds the token in an enumerated log
MaxGap == 21

\* s.lstrip()
LStrip(str) ==
  IF \A k \in DOMAIN str : IsSpace(str[k]) THEN <<>>
  ELSE SubSeq(str, CHOOSE k \in DOMAIN str :
                     ~IsSpace(str[k]) /\ \A j \in 1..(k - 1) : IsSpace(str[j]),
              Len(str))

\* l.lstrip().startswith("!")
IsFatalLine(line) == LStrip(line) # <<>> /\ LStrip(line)[1] = Ord("!")

\* err_line[1:].strip()
ErrMsg(line) == StripText(Tail(LStrip(line)))

\* the 1-based positions where l\.(\d+) matches in a line
TokenStarts(line) ==
  {k \in 1..(Len(line) - 2) :
     line[k] = Ord("l") /\ line[k + 1] = Ord(".") /\ IsDigit(line[k + 2])}

\* the value of the decimal digits that start at position k, as int() reads them
RECURSIVE DigitsValue(_, _, _)
DigitsValue(line, k, acc) ==
  IF k > Len(line) \/ ~IsDigit(line[k]) THEN acc
  ELSE DigitsValue(line, k + 1, 10 * acc + (line[k] - Ord("0")))

\* re.search(r"l\.(\d+)", line): empty for no match, else int(m.group(1))
SearchLineNo(line) ==
  IF TokenStarts(line) = {} THEN <<>>
  ELSE << DigitsValue(line,
                      (CHOOSE k \in TokenStarts(line) : \A j \in TokenStarts(line) : k <= j) + 2,
                      0) >>

\* tex_lines[line_no - 1].rstrip() when the source can be read and has the line
RStrip(str) ==
  IF \A k \in DOMAIN str : IsSpace(str[k]) THEN <<>>
  ELSE SubSeq(str, 1, CHOOSE k \in DOMAIN str :
                        ~IsSpace(str[k]) /\ \A j \in (k + 1)..Len(str) : IsSpace(str[j]))

TexSnippet(log, line_no) ==
  IF line_no = <<>> \/ ~log.tex_exists \/ ~log.tex_readable THEN <<>>
  ELSE With(SplitLines(log.tex_text), LAMBDA tex_lines :
         IF 1 <= line_no[1] /\ line_no[1] <= Len(tex_lines)
         THEN << RStrip(tex_lines[line_no[1]]) >>
         ELSE <<>>)

P_LaTeX == S(<< "L", "a", "T", "e", "X" >>)

\* the issue returned: args holds err_msg and line_no, of which the message is
\* made; the context is there when a line number and its source line were found
\* the message text: err_msg, followed by the line number between the full-width
\* parentheses U+FF08 and U+FF09 when one was found
LatexMessage(err_msg, line_no) ==
  IF line_no # <<>>
  THEN err_msg \o << 65288, Ord("l"), Ord(".") >> \o IntToStr(line_no[1]) \o << 65289 >>
  ELSE err_msg

LatexIssue(err_msg, line_no, snippet) ==
  Issue("error", "latex_error", << err_msg, line_no, LatexMessage(err_msg, line_no) >>,
        P_LaTeX, <<>>, <<>>,
        IF line_no # <<>> /\ snippet # <<>>
        THEN << [line |-> line_no[1], text |-> snippet[1]] >> ELSE <<>>)

\* the lines of the enumerated logs
L_fill == S(<< "x" >>)
L_bang == S(<< "!", " ", "E" >>)
L_indented == S(<< " ", " ", "!", "F", " " >>)
L_bangtoken == S(<< "!", " ", "l", ".", "3" >>)
L_notbang == S(<< "a", "!" >>)
L_token == S(<< "l", ".", "1", "2" >>)
L_token2 == S(<< "z", "l", ".", "0", "2", "y", "l", ".", "5" >>)
L_nodigits == S(<< "l", ".", "x" >>)

\* n lines of filler, each with its newline
Filler(n) == [k \in 1..(2 * n) |-> IF k % 2 = 1 THEN Ord("x") ELSE NL]

FatalLines == { L_bang, L_indented, L_bangtoken }
AfterGap == { L_token, L_token2, L_fill }
LogTails == { <<>>, L_bang \o << NL >> \o S(<< "l", ".", "4" >>) \o << NL >> }

\* logs with a fatal-error line, then up to MaxGap - 1 lines of filler, then a
\* line with or without a token, then nothing or a second fatal line and token
FatalLogs ==
  { Filler(a) \o f \o << NL >> \o Filler(d) \o t \o << NL >> \o u :
      a \in 0..1, f \in FatalLines, d \in 0..(MaxGap - 1), t \in AfterGap, u \in LogTails }

ShortLines == { <<>>, L_fill, L_bang, L_indented, L_notbang, L_token, L_nodigits,
                S(<< " ", " " >>) }

\* logs of up to two lines, a last line without newline included
ShortLogs ==
  { <<>> } \cup ShortLines \cup { a \o << NL >> \o b : a \in ShortLines, b \in ShortLines }

\* a source file of three lines
TexText == S(<< "a" >>) \o << NL >> \o S(<< "b", " " >>) \o << NL >> \o S(<< "c" >>) \o << NL >>

LogFile(exists, readable, text, tex_exists, tex_readable) ==
  [exists |-> exists, readable |-> readable, text |-> text,
   tex_exists |-> tex_exists, tex_readable |-> tex_readable, tex_text |-> TexText]

LogInit ==
  /\ x_log \in { LogFile(FALSE, FALSE, <<>>, TRUE, TRUE),
                 LogFile(TRUE, FALSE, L_bang, TRUE, TRUE) }
           \cup { LogFile(TRUE, TRUE, t, TRUE, TRUE) : t \in FatalLogs \cup ShortLogs }
           \cup { LogFile(TRUE, TRUE, L_bangtoken, te, tr) : te \in BOOLEAN, tr \in BOOLEAN }
  /\ x_pc = "call"
  /\ x_lines = <<>> /\ x_err_idx = <<>> /\ x_j = 0 /\ x_line_no = <<>> /\ x_ret = <<>>
  /\ json_str = <<>> /\ CallInit /\ GuiInit /\ LatexIdle /\ RunsIdle

\* the log is missing or cannot be read: None; else log_lines
LogOpen ==
  /\ x_pc = "call"
  /\ IF x_log.exists /\ x_log.readable
     THEN /\ x_lines' = SplitLines(x_log.text)
          /\ x_pc' = "find"
     ELSE /\ x_pc' = "done"
          /\ UNCHANGED x_lines
  /\ UNCHANGED << x_log, x_err_idx, x_j, x_line_no, x_ret >>
  /\ UNCHANGED << callVars, guiVars, latexVars, runVars >>

\* LogFind taking the last fatal-error line
LogFindLast ==
  /\ x_pc = "find"
  /\ \E fatal \in { {i \in DOMAIN x_lines : IsFatalLine(x_lines[i])} } :
       IF fatal = {}
       THEN /\ x_pc' = "done"
            /\ UNCHANGED << x_err_idx, x_j >>
       ELSE \E i \in fatal :
              /\ \A k \in fatal : k <= i
              /\ x_err_idx' = << i - 1 >>
              /\ x_j' = i - 1
              /\ x_pc' = "scan"
  /\ UNCHANGED << x_log, x_lines, x_line_no, x_ret >>
  /\ UNCHANGED << callVars, guiVars, latexVars, runVars >>

\* err_idx = next(...): the first line that starts with "!" after its blanks
LogFind ==
  /\ x_pc = "find"
  /\ \E fatal \in { {i \in DOMAIN x_lines : IsFatalLine(x_lines[i])} } :
       IF fatal = {}
       THEN /\ x_pc' = "done"
            /\ UNCHANGED << x_err_idx, x_j >>
       ELSE \E i \in fatal :
              /\ \A k \in fatal : i <= k
              /\ x_err_idx' = << i - 1 >>
              /\ x_j' = i - 1
              /\ x_pc' = "scan"
  /\ UNCHANGED << x_log, x_lines, x_line_no, x_ret >>
  /\ UNCHANGED << callVars, guiVars, latexVars, runVars >>

\* min(err_idx + 20, len(log_lines))
ScanLimit ==
  IF x_err_idx[1] + ScanWindow < Len(x_lines) THEN x_err_idx[1] + ScanWindow
  ELSE Len(x_lines)

\* one iteration of the loop over j: a match ends the loop
LogScanLine ==
  /\ x_pc = "scan"
  /\ x_j < ScanLimit
  /\ \E m \in { SearchLineNo(x_lines[x_j + 1]) } :
       IF m # <<>>
       THEN /\ x_line_no' = m
            /\ x_pc' = "return"
            /\ UNCHANGED x_j
       ELSE /\ x_j' = x_j + 1
            /\ UNCHANGED << x_line_no, x_pc >>
  /\ UNCHANGED << x_log, x_lines, x_err_idx, x_ret >>
  /\ UNCHANGED << callVars, guiVars, latexVars, runVars >>

\* the range is exhausted without a match
LogScanEnd ==
  /\ x_pc = "scan"
  /\ x_j >= ScanLimit
  /\ x_pc' = "return"
  /\ UNCHANGED << x_log, x_lines, x_err_idx, x_j, x_line_no, x_ret >>
  /\ UNCHANGED << callVars, guiVars, latexVars, runVars >>

\* the source line is looked up and the issue is returned
LogReturn ==
  /\ x_pc = "return"
  /\ x_ret' = << LatexIssue(ErrMsg(x_lines[x_err_idx[1] + 1]), x_line_no,
                            TexSnippet(x_log, x_line_no)) >>
  /\ x_pc' = "done"
  /\ UNCHANGED << x_log, x_lines, x_err_idx, x_j, x_line_no >>
  /\ UNCHANGED << callVars, guiVars, latexVars, runVars >>

LogNext == LogOpen \/ LogFind \/ LogScanLine \/ LogScanEnd \/ LogReturn

SpecLog == LogInit /\ [][LogNext]_vars

(***************************************************************************)
(* Calls of validate_json_and_latex made by several threads, stage by stage *)
(***************************************************************************)
\* the calls made in one behaviour
MaxCalls == 3

\* a document whose only section has an array as its type
UnhashableTypeDoc ==
  ObjText(<< Pair(K_sections, ArrText(<< ObjText(<< Pair(K_type, S(<< "[", "]" >>)) >>) >>)) >>)

\* a document that is returned with diagnostics of the schema and of the markup
DollarDoc == ObjText(<< Pair(S(<< "a" >>), Q(S(<< "$" >>))) >>)

\* texts that end the call at each of its stages
RunTexts ==
  { <<>>, TooDeep, S(<< "[" >>), Q(S(<< "\\", "f", "a" >>)), DollarDoc, UnhashableTypeDoc }

RunsInit ==
  /\ json_str = <<>> /\ CallInit /\ GuiInit /\ LatexIdle /\ LogIdle /\ RunsIdle

\* the call whose issues list is the one the thread's previous call filled
RunCallKeepingIssues(r) ==
  /\ runs[r].pc = "idle"
  /\ calls < MaxCalls
  /\ \E t \in RunTexts :
       runs' = [runs EXCEPT ![r] = [text |-> t, pc |-> IF t = <<>> THEN "done" ELSE "scan",
                                    issues |-> runs[r].issues, data |-> None]]
  /\ calls' = calls + 1
  /\ UNCHANGED returned
  /\ UNCHANGED << callVars, guiVars, latexVars, logVars >>

\* the call: issues = []; if not json_str: return None, issues
RunCall(r) ==
  /\ runs[r].pc = "idle"
  /\ calls < MaxCalls
  /\ \E t \in RunTexts :
       runs' = [runs EXCEPT ![r] = [text |-> t, pc |-> IF t = <<>> THEN "done" ELSE "scan",
                                    issues |-> <<>>, data |-> None]]
  /\ calls' = calls + 1
  /\ UNCHANGED returned
  /\ UNCHANGED << callVars, guiVars, latexVars, logVars >>

\* issues.extend(_find_suspicious_json_escapes(json_str))
RunScan(r) ==
  /\ runs[r].pc = "scan"
  /\ runs' = [runs EXCEPT ![r].issues = @ \o FindSuspiciousJsonEscapes(runs[r].text),
                          ![r].pc = "parse"]
  /\ UNCHANGED << returned, calls >>
  /\ UNCHANGED << callVars, guiVars, latexVars, logVars >>

\* the try block around json.loads, with its two except clauses
RunParse(r) ==
  /\ runs[r].pc = "parse"
  /\ \E p \in {JsonLoads(runs[r].text)} :
       runs' = IF p.ok
               THEN [runs EXCEPT ![r].data = p.val, ![r].pc = "schema"]
               ELSE [runs EXCEPT ![r].issues = Append(@, IF p.kind = "decode"
                                                         THEN JsonDecodeIssue(runs[r].text, p)
                                                         ELSE JsonExceptionIssue),
                                 ![r].pc = "done"]
  /\ UNCHANGED << returned, calls >>
  /\ UNCHANGED << callVars, guiVars, latexVars, logVars >>

\* issues.extend(_validate_schema(data)); an exception leaves the call
RunSchema(r) ==
  /\ runs[r].pc = "schema"
  /\ \E v \in {ValidateSchema(runs[r].data)} :
       runs' = IF v.raised
               THEN [runs EXCEPT ![r].pc = "raised"]
               ELSE [runs EXCEPT ![r].issues = @ \o v.issues, ![r].pc = "strings"]
  /\ UNCHANGED << returned, calls >>
  /\ UNCHANGED << callVars, guiVars, latexVars, logVars >>

\* issues.extend(_validate_all_strings(data))
RunStrings(r) ==
  /\ runs[r].pc = "strings"
  /\ runs' = [runs EXCEPT ![r].issues = @ \o ValidateAllStrings(runs[r].data),
                          ![r].pc = "return"]
  /\ UNCHANGED << returned, calls >>
  /\ UNCHANGED << callVars, guiVars, latexVars, logVars >>

\* what the caller receives: (None, issues), (data, issues) or the exception
RunOutcome(run) ==
  IF run.pc = "raised" THEN Result("raised", None, <<>>)
  ELSE Result("returned", IF run.pc = "return" THEN run.data ELSE None, run.issues)

\* return None, issues / return data, issues / the exception propagates
RunReturn(r) ==
  /\ runs[r].pc \in {"done", "return", "raised"}
  /\ returned' = returned \cup {[text |-> runs[r].text, result |-> RunOutcome(runs[r])]}
  /\ runs' = [runs EXCEPT ![r].pc = "idle"]
  /\ UNCHANGED calls
  /\ UNCHANGED << callVars, guiVars, latexVars, logVars >>

RunNext ==
  \E r \in Runs :
    RunCall(r) \/ RunScan(r) \/ RunParse(r) \/ RunSchema(r) \/ RunStrings(r) \/ RunReturn(r)

SpecRuns == RunsInit /\ [][RunNext]_vars

(***************************************************************************)
(* Properties of one call on an arbitrary text                              *)
(***************************************************************************)
IsScannerWarning(d) == d.severity = "warning" /\ d.message = "suspicious_escape"
IsParseError(d) == d.severity = "error" /\ d.message \in {"json_format", "json_exception"}
Errors(ds) == {i \in DOMAIN ds : ds[i].severity = "error"}
ParseFailed == pc = "done" /\ exc # "none"

\* C1 as stated: a text the parser rejects gives an absent tree and a list of exactly
\* one diagnostic, an error whose line and column are not null.
C1_OneDiagnostic ==
  ParseFailed =>
    /\ tree = None
    /\ Len(issues) = 1
    /\ issues[1].severity = "error"
    /\ issues[1].line # <<>> /\ issues[1].col # <<>>

\* C1 amended: a text the decoder rejects with a decode error gives an absent tree and
\* a list with exactly one error, its last element, whose line and column are not
\* null; the elements before it are the scanner's warnings.
C1_OneError ==
  (pc = "done" /\ exc = "JSONDecodeError") =>
    /\ tree = None
    /\ issues # <<>>
    /\ Errors(issues) = {Len(issues)}
    /\ issues[Len(issues)].line # <<>> /\ issues[Len(issues)].col # <<>>
    /\ \A i \in 1..(Len(issues) - 1) : IsScannerWarning(issues[i])

\* a rejected text that also drew a scanner warning
C1_Witness ==
  /\ pc = "done" /\ exc = "JSONDecodeError"
  /\ Len(issues) >= 2
  /\ IsScannerWarning(issues[1])

\* C2: when parsing fails the diagnostics are the scanner's warnings followed by the
\* parse error as the last element, the tree is absent, and neither the schema nor
\* the markup stage has run or contributed a diagnostic.
C2_StopsAtParseError ==
  ParseFailed =>
    /\ tree = None
    /\ ran = << "scan", "parse" >>
    /\ issues # <<>>
    /\ IsParseError(issues[Len(issues)])
    /\ SubSeq(issues, 1, Len(issues) - 1) = FindSuspiciousJsonEscapes(json_str)
    /\ \A i \in 1..(Len(issues) - 1) : IsScannerWarning(issues[i])

\* a parse failure after the scanner has warned twice
C2_Witness ==
  /\ ParseFailed
  /\ Len(issues) = 3
  /\ IsScannerWarning(issues[1]) /\ IsScannerWarning(issues[2])

\* C5: the empty text returns an absent tree and an empty list without running any
\* stage, and no non-empty text does: a call that returns on a non-empty text
\* returns a tree or at least one error.
C5_EmptyTextOnly ==
  pc = "done" =>
    IF json_str = <<>>
    THEN tree = None /\ issues = <<>> /\ ran = <<>>
    ELSE tree # None \/ Errors(issues) # {}

\* a non-empty text that parses and still returns an absent tree
C5_Witness ==
  /\ pc = "done" /\ json_str # <<>>
  /\ exc = "none"
  /\ tree = None
  /\ Errors(issues) # {}

\* the mode of the three-mode reading of a text before its character at index i
RECURSIVE ModeBefore(_, _)
ModeBefore(raw, i) ==
  IF i = 0 THEN "outside"
  ELSE With(ModeBefore(raw, i - 1), LAMBDA m :
         CASE m = "outside" -> IF raw[i] = QUOTE THEN "inside" ELSE "outside"
           [] m = "inside"  -> IF raw[i] = BSLASH THEN "pending"
                               ELSE IF raw[i] = QUOTE THEN "outside" ELSE "inside"
           [] m = "pending" -> "inside")

\* a backslash followed by one of b, f, n, r, t and then a letter
LooksLikeCommand(raw, i) ==
  /\ raw[i + 1] = BSLASH
  /\ At(raw, i + 1) \in {Ord("b"), Ord("f"), Ord("n"), Ord("r"), Ord("t")}
  /\ IsAlpha(At(raw, i + 2))

\* the indices of the backslashes that deserve a warning, in increasing order
Suspicious(raw) ==
  SelectSeq([k \in 1..Len(raw) |-> k - 1],
            LAMBDA i : LooksLikeCommand(raw, i) /\ ModeBefore(raw, i) = "inside")

\* 1-based line and column of the character at index i
LineOf(raw, i) == 1 + Cardinality({k \in 1..i : raw[k] = NL})
ColOf(raw, i) == Cardinality({k \in 1..(i + 1) : \A j \in k..i : raw[j] # NL})

\* C10: the scanner warns once for each backslash that lies inside a string
\* literal, is not itself escaped, and is followed by one of b, f, n, r, t and then
\* a letter, and for no other character.
C10_WarnsExactly ==
  pc = "parse" =>
    With(Suspicious(json_str), LAMBDA pos :
      /\ Len(issues) = Len(pos)
      /\ \A k \in 1..Len(pos) :
           /\ IsScannerWarning(issues[k])
           /\ issues[k].line = << LineOf(json_str, pos[k]) >>
           /\ issues[k].col = << ColOf(json_str, pos[k]) >>
           /\ issues[k].args = << << json_str[pos[k] + 2] >>, << json_str[pos[k] + 3] >> >>)

\* the scanner has warned, and has passed over an escaped backslash and one
\* outside every string that are followed by such letters
C10_Witness ==
  /\ pc = "parse"
  /\ issues # <<>>
  /\ \E i, j \in 0..(Len(json_str) - 1) :
       /\ LooksLikeCommand(json_str, i) /\ ModeBefore(json_str, i) = "outside"
       /\ LooksLikeCommand(json_str, j) /\ ModeBefore(json_str, j) = "pending"

\* the scanner's warning for the backslash at index p is among ds
WarnedAt(ds, raw, p) ==
  \E k \in DOMAIN ds :
    /\ IsScannerWarning(ds[k])
    /\ ds[k].line = << LineOf(raw, p) >>
    /\ ds[k].col = << ColOf(raw, p) >>

\* the paths of the control-character errors among ds, in order
ControlErrorPaths(ds) ==
  With(SelectSeq(ds, LAMBDA d : d.severity = "error" /\ d.message = "control_chars"),
       LAMBDA es : [k \in DOMAIN es |-> es[k].path])

\* a character below 32 other than tab, newline and carriage return
IsStrayControl(c) == c < 32 /\ c \notin {9, 10, 13}

\* the paths of the string leaves that hold a stray control character and whose
\* path does not end in .type or .id, in the order of the tree
StrayControlPaths(v) ==
  With(SelectSeq(IterStrings(v, <<>>),
                 LAMBDA leaf : /\ \E k \in DOMAIN leaf[2] : IsStrayControl(leaf[2][k])
                               /\ ~EndsWith(leaf[1], S(<< ".", "t", "y", "p", "e" >>))
                               /\ ~EndsWith(leaf[1], S(<< ".", "i", "d" >>))),
       LAMBDA ls : [k \in DOMAIN ls |-> ls[k][1]])

\* the letters that follow the unescaped backslashes inside the strings of raw
EscapeLetters(raw) ==
  {raw[i + 1] : i \in {j \in 1..(Len(raw) - 1) :
                         raw[j] = BSLASH /\ ModeBefore(raw, j - 1) = "inside"}}

\* C9 as stated: when a valid text that is one string value holds a single
\* backslash followed by one of b, f, n, r, t and a letter, the scanner warns at
\* that backslash and the diagnostics hold a control-character error for the string.
C9_WarningAndError ==
  (pc = "done" /\ exc = "none" /\ IsStr(data) /\ Suspicious(json_str) # <<>>) =>
    /\ \A k \in DOMAIN Suspicious(json_str) :
         WarnedAt(issues, json_str, Suspicious(json_str)[k])
    /\ ControlErrorPaths(issues) # <<>>

\* C9 amended: in a valid text the scanner warns at every such backslash; when
\* validate returns the tree, a string draws a control-character error exactly when
\* it holds a character below 32 other than newline, carriage return and tab and
\* its path does not end in .type or .id.  So, for a text that is one string value,
\* an escape with b or f draws the error and escapes with n, r, t alone do not.
C9_WarningAndStrayControl ==
  /\ (pc \in {"schema", "strings", "done", "raised"} /\ exc = "none") =>
       \A k \in DOMAIN Suspicious(json_str) :
         WarnedAt(issues, json_str, Suspicious(json_str)[k])
  /\ (pc = "done" /\ exc = "none") =>
       /\ ControlErrorPaths(issues) = StrayControlPaths(tree)
       /\ IsStr(tree) =>
            /\ EscapeLetters(json_str) \cap {Ord("b"), Ord("f")} # {}
                 => ControlErrorPaths(issues) = << <<>> >>
            /\ EscapeLetters(json_str) \cap {Ord("b"), Ord("f"), Ord("u")} = {}
                 => ControlErrorPaths(issues) = <<>>

\* a returned call whose text holds such a backslash, warned about, and whose
\* diagnostics hold no control-character error
C9_Witness ==
  /\ pc = "done" /\ exc = "none" /\ IsStr(tree)
  /\ Suspicious(json_str) # <<>>
  /\ WarnedAt(issues, json_str, Suspicious(json_str)[1])
  /\ ControlErrorPaths(issues) = <<>>

(***************************************************************************)
(* Properties of one call on an exam document                               *)
(***************************************************************************)
\* the call has ended on a text that json.loads accepted
EndedAfterParse == pc \in {"done", "raised"} /\ exc = "none" /\ json_str # <<>>

\* C3: for every valid JSON text, whatever the kind of its top-level value, validate
\* returns a present tree equal to the parsed value, together with a diagnostic list.
C3_TreeReturned ==
  EndedAfterParse => (pc = "done" /\ tree # None /\ tree = data)

\* C4: for every valid JSON text, with a value of any kind in any field the schema
\* inspects, validate returns normally: nothing is raised.
C4_NeverRaises == EndedAfterParse => pc = "done"

IsMalformedSection(sec) == ~IsDict(sec) \/ ~IsList(Get(sec, K_questions))

\* the schema diagnostics among ds that lie under section si
UnderSection(ds, si) ==
  SelectSeq(ds, LAMBDA d :
    /\ d.message \in {"section", "type", "questions", "question", "content", "options",
                      "figure", "figure_code", "image", "image_key"}
    /\ Len(d.path) >= Len(SPath(si))
    /\ SubSeq(d.path, 1, Len(SPath(si))) = SPath(si))

\* C7: a malformed section yields its own error and only its own subtree is
\* skipped: every section of the array yields exactly the diagnostics it yields on
\* its own, whatever its siblings are.
C7_SiblingsStillChecked ==
  (/\ EndedAfterParse
   /\ IsDict(data) /\ IsList(Get(data, K_sections))
   /\ \E k \in DOMAIN Get(data, K_sections).items :
        IsMalformedSection(Get(data, K_sections).items[k])) =>
    /\ pc = "done"
    /\ \A k \in DOMAIN Get(data, K_sections).items :
         UnderSection(issues, k - 1)
           = SectionIssues(k - 1, Get(data, K_sections).items[k]).issues

\* C8: whenever parsing succeeds the markup validator runs on every string leaf,
\* whatever the schema validator found, and its diagnostics follow the schema's.
C8_MarkupAlwaysRuns ==
  EndedAfterParse =>
    /\ pc = "done"
    /\ ran = << "scan", "parse", "schema", "strings" >>
    /\ \E n \in 0..Len(issues) :
         SubSeq(issues, n + 1, Len(issues)) = ValidateAllStrings(data)

(***************************************************************************)
(* Properties of the window                                                 *)
(***************************************************************************)
\* C6: a result that apply_result shows in the panel was computed for the request
\* whose sequence number is the most recently issued one at the moment it is
\* shown; the result of a superseded request never changes the panel. (The panel
\* keeps by = "worker" only until the next request is issued, which overwrites
\* it, so validation_seq is still the number current at the application.)
C6_OnlyLatestApplied ==
  panel.by = "worker" => panel.for = validation_seq

(***************************************************************************)
(* Positions of the scanner's warnings                                      *)
(***************************************************************************)
\* the number of newline characters before index p
NewlinesBefore(raw, p) == Len(SelectSeq(SubSeq(raw, 1, p), LAMBDA c : c = NL))

\* the index of the first character of the line that holds index p
LineStart(raw, p) ==
  IF \E k \in 1..p : raw[k] = NL
  THEN CHOOSE k \in 1..p : raw[k] = NL /\ \A j \in (k + 1)..p : raw[j] # NL
  ELSE 0

\* the indices of the backslashes the warnings of ds point at, in the order of ds
\* (an empty set where a warning points at no backslash of raw)
Pointed(ds, raw) ==
  [k \in DOMAIN ds |->
     {p \in 0..(Len(raw) - 1) :
        /\ raw[p + 1] = BSLASH
        /\ ds[k].line = << 1 + NewlinesBefore(raw, p) >>
        /\ ds[k].col = << p + 1 - LineStart(raw, p) >>}]

\* C11: every warning of the scanner carries the position of a backslash of the raw
\* text: its line is 1 plus the number of newlines before that backslash and its
\* column is the backslash's 1-based offset in its line, the column restarting
\* after each newline; this holds for malformed texts as well, and successive
\* warnings point at successive backslashes.
C11_WarningPositions ==
  With(Pointed(SelectSeq(issues, IsScannerWarning), json_str), LAMBDA at :
    /\ \A k \in DOMAIN at : \E p \in at[k] : LooksLikeCommand(json_str, p)
    /\ \A k \in DOMAIN at : \A j \in DOMAIN at :
         k < j => \A p \in at[k] : \A q \in at[j] : p < q)

\* a warning on the second line, at its second column, in a text that does not parse
C11_Witness ==
  /\ pc = "done" /\ exc = "JSONDecodeError"
  /\ \E k \in DOMAIN issues :
       /\ IsScannerWarning(issues[k])
       /\ issues[k].line = << 2 >> /\ issues[k].col = << 2 >>

(***************************************************************************)
(* Properties of one call of the markup validator                           *)
(***************************************************************************)
\* the step-by-step call returns what the functions compute
LatexAgrees ==
  /\ l_pc = "done" => l_issues = ValidateLatexString(l_s, l_path)
  /\ l_pc = "env_return" => e_issues = CheckEnvBalance(l_s, l_path)

\* the tokens with the first begin that is directly followed by an end of the
\* same name removed together with that end, as long as there is such a pair
RECURSIVE Cancel(_)
Cancel(toks) ==
  IF \E i \in 1..(Len(toks) - 1) :
       toks[i].kind = "begin" /\ toks[i + 1].kind = "end" /\ toks[i].name = toks[i + 1].name
  THEN With(CHOOSE i \in 1..(Len(toks) - 1) :
              toks[i].kind = "begin" /\ toks[i + 1].kind = "end"
              /\ toks[i].name = toks[i + 1].name,
            LAMBDA i : Cancel(SubSeq(toks, 1, i - 1) \o SubSeq(toks, i + 2, Len(toks))))
  ELSE toks

\* every end closes the most recently opened begin still open, of the same name,
\* and nothing is left open
ProperlyNested(toks) == Cancel(toks) = <<>>

NestedExample ==
  BeginText(S(<< "a" >>)) \o BeginText(S(<< "b" >>))
    \o EndText(S(<< "b" >>)) \o EndText(S(<< "a" >>))

\* C12: the environment-balance check returns no diagnostics exactly when the
\* begin/end tokens of the string, read left to right, are properly nested with
\* matching names.
C12_NoneIffNested ==
  l_pc = "env_return" => (e_issues = <<>> <=> ProperlyNested(e_tokens))

\* the check has returned nothing for the nested a, b, b, a sequence
C12_Witness ==
  /\ l_pc = "env_return"
  /\ l_s = NestedExample
  /\ Len(e_tokens) = 4
  /\ e_issues = <<>>

\* an end token is about to be replayed against a stack whose top has another name
MismatchAhead ==
  /\ l_pc = "replay" /\ e_k < Len(e_tokens)
  /\ e_tokens[e_k + 1].kind = "end"
  /\ e_stack # <<>>
  /\ e_stack[Len(e_stack)] # e_tokens[e_k + 1].name

\* the tokens are begin{a} then end{b} and nothing else
OnlyBeginAEndB ==
  /\ Len(e_tokens) = 2
  /\ e_tokens[1].kind = "begin" /\ e_tokens[1].name = S(<< "a" >>)
  /\ e_tokens[2].kind = "end" /\ e_tokens[2].name = S(<< "b" >>)

\* C13: when an end{y} is replayed against a stack whose top x differs from y,
\* exactly one warning, naming x and y, is emitted and x leaves the stack, so x is
\* not reported as left open as well; the tokens begin{a}, end{b} alone yield
\* exactly one environment warning.
C13_MismatchConsumes ==
  /\ [][MismatchAhead =>
          /\ e_issues' = Append(e_issues,
                                PathIssue("warning", "env_mismatch",
                                          << e_stack[Len(e_stack)],
                                             e_tokens[e_k + 1].name >>, l_path))
          /\ e_stack' = SubSeq(e_stack, 1, Len(e_stack) - 1)]_vars
  /\ []((l_pc = "env_return" /\ OnlyBeginAEndB) => Len(e_issues) = 1)

\* the check has returned one mismatch warning for begin{a} end{b}
C13_Witness ==
  /\ l_pc = "env_return"
  /\ OnlyBeginAEndB
  /\ Len(e_issues) = 1
  /\ e_issues[1].message = "env_mismatch"
  /\ e_issues[1].args = << S(<< "a" >>), S(<< "b" >>) >>

\* one left-open warning for each environment of stack, in the order they were
\* opened: the one opened last comes last
LeftOpenInOrder(stack, path) ==
  [k \in DOMAIN stack |-> PathIssue("warning", "begin_without_end", << stack[k] >>, path)]

\* C14: the environments still open at the end of the string yield exactly one
\* warning each, after every warning of the replay, and among them the innermost
\* unclosed environment, the one opened last, is reported last.
C14_InnermostLast ==
  (l_pc = "env_return" /\ e_tokens # <<>>) =>
    \E n \in 0..Len(e_issues) :
      /\ \A k \in 1..n : e_issues[k].message # "begin_without_end"
      /\ SubSeq(e_issues, n + 1, Len(e_issues)) = LeftOpenInOrder(e_stack, l_path)

\* the dollars of a string that do not directly follow a backslash, as the
\* 1-based indices of the string
FreeDollars(str) ==
  SelectSeq([k \in DOMAIN str |-> k],
            LAMBDA k : str[k] = Ord("$") /\ (k = 1 \/ str[k - 1] # BSLASH))

ParityErrors(ds) == SelectSeq(ds, LAMBDA d : d.severity = "error" /\ d.message = "unpaired_dollar")

\* C15: for every string the markup validator checks, no parity error is emitted
\* when the number of dollars not directly preceded by a backslash is even and
\* exactly one when it is odd, whatever the other checks report.
C15_DollarParity ==
  (l_pc = "done" /\ ~SkippedPath(l_path)) =>
    Len(ParityErrors(l_issues)) = Len(FreeDollars(l_s)) % 2

\* an odd number of free dollars, an escaped dollar beside them, and another
\* check that has fired on the same string
C15_Witness ==
  /\ l_pc = "done" /\ ~SkippedPath(l_path)
  /\ Len(FreeDollars(l_s)) = 1
  /\ \E k \in 2..Len(l_s) : l_s[k] = Ord("$") /\ l_s[k - 1] = BSLASH
  /\ Len(ParityErrors(l_issues)) = 1
  /\ Len(l_issues) > 1

\* the positions of a text that one pass of the stripper keeps: text is a record
\* of the characters left (str) and of the index each had in the original string
\* (idx); a pass removes what Strip removes
KeptStep(str, i, st) ==
  IF i < st.next THEN st
  ELSE IF SegmentAt(str, i, st.open, st.close, st.lb)
  THEN [st EXCEPT !.next = SegmentEnd(str, i, st.open, st.close, st.lb)]
  ELSE [st EXCEPT !.acc = Append(st.acc, i + 1)]

Restrict(text, kept) ==
  [str |-> [n \in DOMAIN kept |-> text.str[kept[n]]],
   idx |-> [n \in DOMAIN kept |-> text.idx[kept[n]]]]

StripTracked(text, open, close, lb) ==
  Restrict(text, Loop(KeptStep, text.str, 0, Len(text.str),
                      [done |-> FALSE, next |-> 0, acc |-> <<>>, open |-> open,
                       close |-> close, lb |-> lb]).acc)

BlankStep(str, i, st) ==
  IF i < st.next THEN st
  ELSE IF Matches(str, i, W_blank) THEN [st EXCEPT !.next = i + Len(W_blank)]
  ELSE [st EXCEPT !.acc = Append(st.acc, i + 1)]

BlankTracked(text) ==
  Restrict(text, Loop(BlankStep, text.str, 0, Len(text.str),
                      [done |-> FALSE, next |-> 0, acc |-> <<>>]).acc)

\* the string after the four passes and the removal of the placeholder, each
\* character with the index it had in the original string
Tracked(str) ==
  BlankTracked(
    StripTracked(
      StripTracked(
        StripTracked(
          StripTracked([str |-> str, idx |-> [k \in DOMAIN str |-> k]],
                       D_dollar2, D_dollar2, TRUE),
          D_dollar, D_dollar, TRUE),
        D_lparen, D_rparen, FALSE),
      D_lbrack, D_rbrack, FALSE))

\* the 1-based indices of str that lie outside every math-mode span and outside
\* every placeholder token, spans and tokens being those the validator removes
OutsideMath(str) == With(Tracked(str), LAMBDA t : {t.idx[n] : n \in DOMAIN t.idx})

\* an occurrence of c in str, outside math mode and the placeholder, that no
\* backslash precedes
FreeOutside(str, c) ==
  \E x \in OutsideMath(str) : str[x] = c /\ (x = 1 \/ str[x - 1] # BSLASH)

SpecialWarnings(ds, c) ==
  SelectSeq(ds, LAMBDA d : d.message = "unescaped_char" /\ d.args = << << c >> >>)

\* C16: for each of the characters % & # _ the markup validator emits exactly one
\* warning when an occurrence of it that no backslash precedes lies outside every
\* math-mode span and every placeholder token, and none otherwise, however many
\* occurrences there are.
C16_OneWarningPerCharacter ==
  (l_pc = "done" /\ ~SkippedPath(l_path)) =>
    \A k \in DOMAIN SpecialChars :
      Len(SpecialWarnings(l_issues, SpecialChars[k]))
        = IF FreeOutside(l_s, SpecialChars[k]) THEN 1 ELSE 0

(***************************************************************************)
(* Fields that hold no markup                                               *)
(***************************************************************************)
\* the structural path ends in the field, directly under the top-level object
\* or deeper
EndsInField(path, field) == path = field \/ EndsWith(path, << Ord(".") >> \o field)

IsMarkupIssue(d) ==
  d.message \in {"control_chars", "backslash_n", "unpaired_dollar", "double_dollar",
                 "braces", "left_right", "end_without_begin", "env_mismatch",
                 "begin_without_end", "unescaped_char"}

\* C17: for every string leaf whose path ends in the field type or the field id,
\* at any depth, the top level included, the markup validator emits no
\* diagnostic, whatever the string holds.
C17_TagFieldsSkipped ==
  (pc = "done" /\ exc = "none") =>
    \A k \in DOMAIN IterStrings(data, <<>>) :
      With(IterStrings(data, <<>>)[k][1], LAMBDA leaf :
        (EndsInField(leaf, K_type) \/ EndsInField(leaf, K_id)) =>
          \A j \in DOMAIN issues : ~(IsMarkupIssue(issues[j]) /\ issues[j].path = leaf))

(***************************************************************************)
(* The options of choice questions                                          *)
(***************************************************************************)
\* sections[i].questions[j].options
OptionsPath(i, j) ==
  S(<< "s", "e", "c", "t", "i", "o", "n", "s", "[" >>) \o IntToStr(i)
    \o S(<< "]", ".", "q", "u", "e", "s", "t", "i", "o", "n", "s", "[" >>) \o IntToStr(j)
    \o S(<< "]", ".", "o", "p", "t", "i", "o", "n", "s" >>)

\* the options diagnostics among ds that carry the path
OptionsIssues(ds, path) == SelectSeq(ds, LAMBDA d : d.message = "options" /\ d.path = path)

\* options is missing, is not an array, or is an empty array
LacksOptions(q) ==
  \/ ~HasKey(q, K_options)
  \/ Get(q, K_options).t # "arr"
  \/ Get(q, K_options).items = <<>>

IsChoiceSection(section) ==
  /\ Get(section, K_type).t = "str"
  /\ Get(section, K_type).s \in {T_single_choice, T_multiple_choice}

\* what is expected of question j of section i
OptionsAsExpected(ds, i, j, section, q) ==
  With(OptionsIssues(ds, OptionsPath(i, j)), LAMBDA found :
    IF IsChoiceSection(section) /\ LacksOptions(q)
    THEN Len(found) = 1 /\ found[1].severity = "error"
    ELSE found = <<>>)

StartsWithBang(line) ==
  \E k \in DOMAIN line : line[k] = Ord("!") /\ \A j \in 1..(k - 1) : IsSpace(line[j])

\* the 1-based numbers of the lines of the log that are fatal-error lines
BangLines == {i \in DOMAIN x_lines : StartsWithBang(x_lines[i])}

FirstBang == CHOOSE i \in BangLines : \A k \in BangLines : i <= k

\* the text of a line after its first "!", without the white space around it
AfterBang(line) ==
  StripText(SubSeq(line, 1 + (CHOOSE k \in DOMAIN line : line[k] = Ord("!")
                                /\ \A j \in 1..(k - 1) : line[j] # Ord("!")),
                   Len(line)))

\* C19: extract_first_latex_error returns nothing when no line of the log has "!"
\* as its first non-space character; otherwise it returns exactly one diagnostic,
\* an error with path LaTeX, built from the first such line from the top, and
\* every later "!" line is ignored.
C19_FirstFatalLine ==
  x_pc = "done" =>
    IF BangLines = {}
    THEN x_ret = <<>>
    ELSE /\ Len(x_ret) = 1
         /\ x_ret[1].severity = "error"
         /\ x_ret[1].path = S(<< "L", "a", "T", "e", "X" >>)
         /\ x_ret[1].args[1] = AfterBang(x_lines[FirstBang])
         /\ x_err_idx = << FirstBang - 1 >>

\* a diagnostic has been returned for a log with two fatal-error lines that read
\* differently, the first of them after a line that is not one
C19_Witness ==
  /\ x_pc = "done"
  /\ x_ret # <<>>
  /\ Cardinality(BangLines) >= 2
  /\ FirstBang > 1
  /\ \E i \in BangLines : AfterBang(x_lines[i]) # AfterBang(x_lines[FirstBang])

\* the lines at offsets 0 to 20 from the fatal-error line that hold a token
\* l.<digits>, as 1-based line numbers
LinesWithToken ==
  {i \in FirstBang..(FirstBang + 20) :
     /\ i <= Len(x_lines)
     /\ \E k \in 1..(Len(x_lines[i]) - 2) :
          /\ x_lines[i][k] = Ord("l") /\ x_lines[i][k + 1] = Ord(".")
          /\ x_lines[i][k + 2] \in Ord("0")..Ord("9")}

\* the number the digits of the first token of a line denote
FirstTokenValue(line) ==
  With(CHOOSE k \in 1..(Len(line) - 2) :
         /\ line[k] = Ord("l") /\ line[k + 1] = Ord(".") /\ line[k + 2] \in Ord("0")..Ord("9")
         /\ \A j \in 1..(k - 1) :
              ~(line[j] = Ord("l") /\ line[j + 1] = Ord(".")
                /\ line[j + 2] \in Ord("0")..Ord("9")),
       LAMBDA k : DigitsValue(line, k + 2, 0))

\* C20: the line number reported is that of the first l.<digits> token met from the
\* fatal-error line on; the token is found whenever it lies on the fatal-error line
\* or on one of the next 20 lines (offsets 0 to 20), and without a token in that
\* window no line number is reported.
C20_WindowOfTwentyOne ==
  (x_pc = "done" /\ x_ret # <<>>) =>
    IF LinesWithToken = {}
    THEN x_ret[1].args[2] = <<>>
    ELSE x_ret[1].args[2]
           = << FirstTokenValue(x_lines[CHOOSE i \in LinesWithToken :
                                          \A k \in LinesWithToken : i <= k]) >>

\* C21: the message of the diagnostic extract_first_latex_error returns is the text
\* of the fatal-error line after its leading "!", without the white space around
\* it, whether or not a source line number was found.
C21_MessageIsErrorText ==
  (x_pc = "done" /\ x_ret # <<>>) =>
    x_ret[1].args[3] = AfterBang(x_lines[FirstBang])

(***************************************************************************)
(* Properties of calls made by several threads                              *)
(***************************************************************************)
\* the calls that have ended, returned to the caller or about to be
Ended ==
  returned \cup {[text |-> runs[r].text, result |-> RunOutcome(runs[r])] :
                   r \in {q \in Runs : runs[q].pc \in {"done", "return", "raised"}}}

BuildReached == g.reached # {}

\* C23: in run_generation, render and compile_pdf are never reached when the
\* validation of the editor text made by the run returned an error diagnostic or
\* when the text is empty; a run whose diagnostics are warnings only goes on from
\* the test of the diagnostics to the build.
C23_ErrorsBlockGeneration ==
  /\ [](BuildReached => (g.text # <<>> /\ ~HasAny(g.issues, IsError)))
  /\ [](g_pc \in {"build", "collect"} => (g.text # <<>> /\ ~HasAny(g.issues, IsError)))
  /\ [][(g_pc # g_pc' /\ g_pc = "panel" /\ ~HasAny(g.issues, IsError)) => g_pc' = "build"]_vars
  /\ [][(g_pc # g_pc' /\ g_pc = "panel" /\ HasAny(g.issues, IsError)) => g_pc' = "finally"]_vars
  /\ [][(g_pc # g_pc' /\ g_pc = "read" /\ g'.text = <<>>) => g_pc' = "finally"]_vars

\* compile_pdf has been called for a text whose validation returned a warning
C23_Witness ==
  /\ g_pc = "collect"
  /\ "compile" \in g.reached
  /\ HasAny(g.issues, IsWarning)

(***************************************************************************)
(* Properties of the validation worker                                      *)
(***************************************************************************)
\* apply_result has shown issues computed for request n
AppliedFor(n) == panel.by = "worker" /\ panel.header = "result" /\ panel.for = n

\* C24: if the editor stops issuing requests while the window stays open, the
\* result of the request issued last is eventually applied to the issues panel,
\* whatever the threads' interleaving and the content of the earlier requests:
\* each request is followed by a later request, by the closing of the window or by
\* its result in the panel.
C24_LatestEventuallyApplied ==
  \A n \in 1..MaxRequests :
    (validation_seq = n) ~> (validation_seq # n \/ stop_event \/ AppliedFor(n))

\* the same, but for the runs in which the worker thread has ended on an exception
LatestAppliedUnlessDead ==
  \A n \in 1..MaxRequests :
    (validation_seq = n) ~> (validation_seq # n \/ stop_event \/ AppliedFor(n)
                             \/ w_pc = "dead")

\* while the request written last is the one the worker holds the number of, the
\* worker holds its text: the two were written and read together
WorkerPairWritten ==
  (w_pc = "validate" /\ cell.seq = pending.seq) => w_text = pending.text

\* C25: under every interleaving of the main thread and the worker, a result tagged
\* with sequence number n was computed from the text captured by request n, never
\* from the text of another request: when apply_result has found its seq equal to
\* the number of the request written last, the issues it is about to show are the
\* ones the validator returns for the text of that request.
C25_ResultOfTaggedRequest ==
  (m_pc = "apply_panel" /\ cell.seq = pending.seq) =>
    With(ValidateJsonAndLatex(pending.text), LAMBDA r :
      r.outcome = "returned" /\ cell.issues = r.issues)
====
